---- MODULE Spec2Model ----
(***************************************************************************)
(* A model of the core of tikv-client-go:                                  *)
(*   - the MVCC reference engine  (internal/mockstore/mocktikv)            *)
(*   - the region routing cache   (internal/locate/region_cache.go)        *)
(* Each subsystem has its own variables and its own specification; the     *)
(* variables of the other subsystem are left unchanged.                    *)
(***************************************************************************)
EXTENDS Integers, Sequences, FiniteSets, TLC

(***************************************************************************)
(* PART 1 -- MVCC engine (mvcc_leveldb.go)                                 *)
(*                                                                         *)
(* The store is the leveldb map  mvccEncode(key, ver) -> bytes.  An        *)
(* encoded key is modelled by the pair <<key, ver>>; the iteration order   *)
(* of the encoding is key ascending, then ver descending, so that the lock *)
(* slot (ver = lockVer) comes first and the newest write next.             *)
(***************************************************************************)

\* math.MaxUint64 in the source; the largest integer of the checker here.
\* No arithmetic is ever done on it.
lockVer == 2147483647

\* oracle.ExtractPhysical shifts the timestamp right by 18 bits.
physicalShiftBits == 18

\* User keys (byte strings compared lexicographically; integers here).
Keys == {1, 2}

NilValue == 0

ExtractPhysical(ts) == ts \div (2 ^ physicalShiftBits)

ComposeTS(physical, logical) == physical * (2 ^ physicalShiftBits) + logical

mvccEncode(key, ver) == <<key, ver>>

\* A lock record (mvccLock) and a write record (mvccValue).
mvccLock(startTS, primary, value, op, ttl, forUpdateTS, minCommitTS, txnSize) ==
    [kind |-> "lock", startTS |-> startTS, primary |-> primary, value |-> value,
     op |-> op, ttl |-> ttl, forUpdateTS |-> forUpdateTS,
     minCommitTS |-> minCommitTS, txnSize |-> txnSize,
     valueType |-> "none", commitTS |-> 0]

mvccValue(valueType, startTS, commitTS, value) ==
    [kind |-> "value", startTS |-> startTS, primary |-> 0, value |-> value,
     op |-> "none", ttl |-> 0, forUpdateTS |-> 0, minCommitTS |-> 0, txnSize |-> 0,
     valueType |-> valueType, commitTS |-> commitTS]

\* Errors returned by the engine; ts/ttl carry the lock of a Locked error and
\* the commit ts of a conflict.
Err(kind, ts, ttl) == [kind |-> kind, ts |-> ts, ttl |-> ttl]

NoErr == Err("nil", 0, 0)

IsErr(e) == e.kind # "nil"

\* mvccLock.lockErr: the Locked error carries a copy of the lock.
lockErr(lock) == Err("Locked", lock.startTS, lock.ttl)

(***************************************************************************)
(* leveldb.Batch: a sequence of Put / Delete, applied in order by Write.   *)
(***************************************************************************)
BatchPut(ek, rec) == [put |-> TRUE, ek |-> ek, rec |-> rec]

BatchDelete(ek) == [put |-> FALSE, ek |-> ek, rec |-> mvccValue("none", 0, 0, NilValue)]

ApplyOp(d, o) ==
    IF o.put
    THEN [x \in (DOMAIN d) \cup {o.ek} |-> IF x = o.ek THEN o.rec ELSE d[x]]
    ELSE [x \in (DOMAIN d) \ {o.ek} |-> d[x]]

RECURSIVE Write(_, _)
Write(d, batch) ==
    IF batch = <<>> THEN d ELSE Write(ApplyOp(d, Head(batch)), Tail(batch))

(***************************************************************************)
(* Iteration.                                                              *)
(***************************************************************************)
MaxOf(S) == CHOOSE x \in S : \A y \in S : y <= x

RECURSIVE DescSeq(_)
DescSeq(S) == IF S = {} THEN <<>> ELSE <<MaxOf(S)>> \o DescSeq(S \ {MaxOf(S)})

\* lockDecoder.Decode positioned at mvccEncode(key, lockVer).
HasLock(d, key) == mvccEncode(key, lockVer) \in DOMAIN d

LockOf(d, key) == d[mvccEncode(key, lockVer)]

\* The records valueDecoder.Decode yields for key, newest first.
ValuesOf(d, key) ==
    LET vers == {ek[2] : ek \in {x \in DOMAIN d : x[1] = key /\ x[2] # lockVer}}
        s == DescSeq(vers)
    IN [i \in 1..Len(s) |-> d[mvccEncode(key, s[i])]]

(***************************************************************************)
(* mvccLock.check (mvcc.go, not part of the sources at hand): modelled     *)
(* from the description of Get in the specification: the lock is visible   *)
(* iff lock.ts <= start_ts and lock.ts is not among the resolved locks.    *)
(***************************************************************************)
lockCheck(lock, ts, resolvedLocks) ==
    IF lock.startTS <= ts /\ lock.startTS \notin resolvedLocks
    THEN lockErr(lock)
    ELSE NoErr

RECURSIVE getValueWalk(_, _, _)
getValueWalk(vals, i, startTS) ==
    IF i > Len(vals) THEN NilValue
    ELSE IF vals[i].valueType \in {"Rollback", "Lock"} THEN getValueWalk(vals, i + 1, startTS)
    ELSE IF vals[i].commitTS <= startTS
         THEN (IF vals[i].valueType = "Delete" THEN NilValue ELSE vals[i].value)
         ELSE getValueWalk(vals, i + 1, startTS)

\* getValue: the result is [err, value].
getValue(d, key, startTS, isoLevel, resolvedLocks) ==
    LET e == IF HasLock(d, key) /\ isoLevel = "SI"
             THEN lockCheck(LockOf(d, key), startTS, resolvedLocks)
             ELSE NoErr
    IN IF IsErr(e) THEN [err |-> e, value |-> NilValue]
       ELSE [err |-> NoErr, value |-> getValueWalk(ValuesOf(d, key), 1, startTS)]

(***************************************************************************)
(* checkConflictValue: the walk over the write records of m.key.           *)
(* Result [err, value].                                                    *)
(***************************************************************************)
\* The loop of checkConflictValue without the test for a Rollback record.
RECURSIVE conflictLoopNoRollback(_, _, _, _, _, _, _, _, _)
conflictLoopNoRollback(vals, i, m, startTS, assertionLevel, needGetVal, needNotExistPL, needCheckRollback, retVal) ==
    LET v == vals[i]
        ncr == needCheckRollback /\ ~(v.commitTS < startTS)
        needAssert == m.assertion # "None" /\ m.op # "PessimisticLock" /\ assertionLevel # "Off"
        putOrLock == v.valueType \in {"Put", "Lock"}
        npl == needNotExistPL /\ v.valueType # "Delete"
        takeVal == needGetVal /\ v.valueType \in {"Delete", "Put"}
        ngv == needGetVal /\ ~takeVal
        rv == IF takeVal THEN v.value ELSE retVal
    IN IF putOrLock /\ needNotExistPL
       THEN [err |-> Err("AssertionFailed", v.commitTS, 0), value |-> NilValue]
       ELSE IF putOrLock /\ needAssert /\ m.assertion = "NotExist"
            THEN [err |-> Err("AssertionFailed", v.commitTS, 0), value |-> NilValue]
       ELSE IF ~npl /\ ~ngv /\ ~ncr THEN [err |-> NoErr, value |-> rv]
       ELSE IF i + 1 > Len(vals)
            THEN (IF m.assertion = "Exist" /\ assertionLevel # "Off"
                  THEN [err |-> Err("AssertionFailed", 0, 0), value |-> NilValue]
                  ELSE [err |-> NoErr, value |-> rv])
       ELSE conflictLoopNoRollback(vals, i + 1, m, startTS, assertionLevel, ngv, npl, ncr, rv)

RECURSIVE conflictLoop(_, _, _, _, _, _, _, _, _)
conflictLoop(vals, i, m, startTS, assertionLevel, needGetVal, needNotExistPL, needCheckRollback, retVal) ==
    LET v == vals[i]
        rolled == needCheckRollback /\ v.valueType = "Rollback" /\ v.commitTS = startTS
        ncr == needCheckRollback /\ ~(v.commitTS < startTS)
        needAssert == m.assertion # "None" /\ m.op # "PessimisticLock" /\ assertionLevel # "Off"
        putOrLock == v.valueType \in {"Put", "Lock"}
        npl == needNotExistPL /\ v.valueType # "Delete"
        takeVal == needGetVal /\ v.valueType \in {"Delete", "Put"}
        ngv == needGetVal /\ ~takeVal
        rv == IF takeVal THEN v.value ELSE retVal
    IN IF rolled THEN [err |-> Err("AlreadyRollbacked", startTS, 0), value |-> NilValue]
       ELSE IF putOrLock /\ needNotExistPL
            THEN [err |-> Err("AssertionFailed", v.commitTS, 0), value |-> NilValue]
       ELSE IF putOrLock /\ needAssert /\ m.assertion = "NotExist"
            THEN [err |-> Err("AssertionFailed", v.commitTS, 0), value |-> NilValue]
       ELSE IF ~npl /\ ~ngv /\ ~ncr THEN [err |-> NoErr, value |-> rv]
       ELSE IF i + 1 > Len(vals)
            THEN (IF m.assertion = "Exist" /\ assertionLevel # "Off"
                  THEN [err |-> Err("AssertionFailed", 0, 0), value |-> NilValue]
                  ELSE [err |-> NoErr, value |-> rv])
       ELSE conflictLoop(vals, i + 1, m, startTS, assertionLevel, ngv, npl, ncr, rv)


\* A checkConflictValue without the write-conflict check.
checkConflictValueNoConflict(d, m, forUpdateTS, startTS, getVal, assertionLevel) ==
    [err |-> NoErr, value |-> NilValue]

checkConflictValue(d, m, forUpdateTS, startTS, getVal, assertionLevel) ==
    LET vals == ValuesOf(d, m.key)
        r == conflictLoop(vals, 1, m, startTS, assertionLevel, getVal,
                          m.assertion = "NotExist" /\ m.op = "PessimisticLock", TRUE, NilValue)
    IN IF Len(vals) = 0
       THEN (IF m.assertion = "Exist" /\ assertionLevel # "Off" /\ m.op # "PessimisticLock"
             THEN [err |-> Err("AssertionFailed", 0, 0), value |-> NilValue]
             ELSE [err |-> NoErr, value |-> NilValue])
       ELSE IF vals[1].commitTS > forUpdateTS
            THEN [err |-> Err("WriteConflict", vals[1].commitTS, 0), value |-> NilValue]
       ELSE [err |-> r.err, value |-> IF getVal THEN r.value ELSE NilValue]

(***************************************************************************)
(* Prewrite.  A mutation is [op, key, value, assertion]; a request is      *)
(* [startTS, primary, forUpdateTS, ttl, minCommitTS, txnSize,              *)
(*  assertionLevel, mutations, isPessimisticLock, resolvedLocks].          *)
(***************************************************************************)
Mutation(op, key, value, assertion) ==
    [op |-> op, key |-> key, value |-> value, assertion |-> assertion]


\* A prewriteMutation that, on a retry, writes the lock again with the key
\* as its primary.
prewriteMutationRewrite(d, mutation, startTS, primary, ttl, txnSize, isPessimisticLock, minCommitTS, assertionLevel) ==
    IF HasLock(d, mutation.key) /\ LockOf(d, mutation.key).startTS # startTS
    THEN [err |-> lockErr(LockOf(d, mutation.key)), batch |-> <<>>]
    ELSE IF ~HasLock(d, mutation.key) /\ isPessimisticLock
         THEN [err |-> Err("PessimisticLockNotFound", startTS, 0), batch |-> <<>>]
    ELSE IF IsErr(checkConflictValue(d, mutation, startTS, startTS, FALSE, assertionLevel).err)
         THEN [err |-> checkConflictValue(d, mutation, startTS, startTS, FALSE, assertionLevel).err,
               batch |-> <<>>]
    ELSE [err |-> NoErr,
          batch |-> <<BatchPut(mvccEncode(mutation.key, lockVer),
                               mvccLock(startTS,
                                        IF HasLock(d, mutation.key) THEN mutation.key ELSE primary,
                                        mutation.value,
                                        IF mutation.op = "Insert" THEN "Put" ELSE mutation.op,
                                        ttl, 0, 0, txnSize))>>]

\* prewriteMutation: result [err, batch].
prewriteMutation(d, mutation, startTS, primary, ttl, txnSize, isPessimisticLock, minCommitTS, assertionLevel) ==
    LET ok == HasLock(d, mutation.key)
        lock == LockOf(d, mutation.key)
        ttl2 == IF ok /\ ttl < lock.ttl THEN lock.ttl ELSE ttl
        minCommitTS2 == IF ok /\ minCommitTS < lock.minCommitTS THEN lock.minCommitTS ELSE minCommitTS
        c == checkConflictValue(d, mutation, startTS, startTS, FALSE, assertionLevel)
        op == IF mutation.op = "Insert" THEN "Put" ELSE mutation.op
        newLock == mvccLock(startTS, primary, mutation.value, op, ttl2, 0,
                            IF primary = mutation.key THEN minCommitTS2 ELSE 0, txnSize)
        put == <<BatchPut(mvccEncode(mutation.key, lockVer), newLock)>>
    IN IF ok /\ lock.startTS # startTS
       THEN [err |-> lockErr(IF isPessimisticLock THEN [lock EXCEPT !.ttl = 0] ELSE lock),
             batch |-> <<>>]
       ELSE IF ok /\ lock.op # "PessimisticLock" THEN [err |-> NoErr, batch |-> <<>>]
       ELSE IF ~ok /\ isPessimisticLock
            THEN [err |-> Err("PessimisticLockNotFound", startTS, 0), batch |-> <<>>]
       ELSE IF IsErr(c.err) THEN [err |-> c.err, batch |-> <<>>]
       ELSE [err |-> NoErr, batch |-> put]

RECURSIVE PrewriteLoop(_, _, _, _, _)
PrewriteLoop(d, req, i, errs, batch) ==
    IF i > Len(req.mutations) THEN [errs |-> errs, batch |-> batch]
    ELSE LET m == req.mutations[i]
             needRead == m.op \in {"Insert", "CheckNotExists"} /\ req.forUpdateTS = 0
             g == getValue(d, m.key, req.startTS, "SI", req.resolvedLocks)
             r == prewriteMutation(d, m, req.startTS, req.primary, req.ttl, req.txnSize,
                                   req.isPessimisticLock # <<>> /\ req.isPessimisticLock[i],
                                   req.minCommitTS, req.assertionLevel)
         IN IF needRead /\ IsErr(g.err)
            THEN PrewriteLoop(d, req, i + 1, Append(errs, g.err), batch)
            ELSE IF needRead /\ g.value # NilValue
                 THEN PrewriteLoop(d, req, i + 1, Append(errs, Err("AlreadyExist", 0, 0)), batch)
            ELSE IF m.op = "CheckNotExists"
                 THEN PrewriteLoop(d, req, i + 1, errs, batch)
            ELSE PrewriteLoop(d, req, i + 1, Append(errs, r.err), batch \o r.batch)

AnyError(errs) == \E i \in 1..Len(errs) : IsErr(errs[i])


\* A Prewrite that writes the batch whatever the errors.
PrewriteNoAbort(d, req) ==
    [errs |-> PrewriteLoop(d, req, 1, <<>>, <<>>).errs,
     db |-> Write(d, PrewriteLoop(d, req, 1, <<>>, <<>>).batch)]

\* MVCCLevelDB.Prewrite: result [errs, db].
Prewrite(d, req) ==
    LET r == PrewriteLoop(d, req, 1, <<>>, <<>>)
    IN IF AnyError(r.errs) THEN [errs |-> r.errs, db |-> d]
       ELSE [errs |-> r.errs, db |-> Write(d, r.batch)]

(***************************************************************************)
(* Deadlock detector (internal/mockstore/deadlock, not part of the sources *)
(* at hand): modelled from the specification: waits are edges              *)
(* <<txn, waits_for>>; a new wait that closes a cycle is refused with      *)
(* Deadlock and not registered; CleanUp drops the waits of a transaction.  *)
(***************************************************************************)
RECURSIVE Reaches(_, _, _, _)
Reaches(edges, from, to, fuel) ==
    \/ from = to
    \/ /\ fuel > 0
       /\ \E e \in edges : e[1] = from /\ Reaches(edges, e[2], to, fuel - 1)

DetectDeadlock(edges, txnTS, waitForTS) == Reaches(edges, waitForTS, txnTS, Cardinality(edges))

DetectorCleanUp(edges, txnTS) == {e \in edges : e[1] # txnTS}

(***************************************************************************)
(* PessimisticLock.  lctx is [startTS, forUpdateTS, primary, ttl,          *)
(* minCommitTs, returnValues].                                             *)
(***************************************************************************)
\* A pessimisticLockMutation that registers the wait without asking the
\* detector for a cycle.
pessimisticLockMutationNoDetect(d, edges, mutation, lctx) ==
    LET ok == HasLock(d, mutation.key)
        lock == LockOf(d, mutation.key)
        c == checkConflictValue(d, mutation, lctx.forUpdateTS, lctx.startTS, TRUE, "Off")
        newLock == mvccLock(lctx.startTS, lctx.primary, NilValue, "PessimisticLock", lctx.ttl,
                            lctx.forUpdateTS, lctx.minCommitTs, 0)
    IN IF ok /\ lock.startTS # lctx.startTS
       THEN [err |-> lockErr(lock), batch |-> <<>>,
             edges |-> edges \cup {<<lctx.startTS, lock.startTS>>}]
       ELSE IF ok THEN [err |-> NoErr, batch |-> <<>>, edges |-> edges]
       ELSE IF IsErr(c.err) THEN [err |-> c.err, batch |-> <<>>, edges |-> edges]
       ELSE [err |-> NoErr, batch |-> <<BatchPut(mvccEncode(mutation.key, lockVer), newLock)>>,
             edges |-> edges]

\* pessimisticLockMutation: result [err, batch, edges].
pessimisticLockMutation(d, edges, mutation, lctx) ==
    LET ok == HasLock(d, mutation.key)
        lock == LockOf(d, mutation.key)
        c == checkConflictValue(d, mutation, lctx.forUpdateTS, lctx.startTS, TRUE, "Off")
        newLock == mvccLock(lctx.startTS, lctx.primary, NilValue, "PessimisticLock", lctx.ttl,
                            lctx.forUpdateTS, lctx.minCommitTs, 0)
    IN IF ok /\ lock.startTS # lctx.startTS
       THEN (IF DetectDeadlock(edges, lctx.startTS, lock.startTS)
             THEN [err |-> Err("Deadlock", lock.startTS, 0), batch |-> <<>>, edges |-> edges]
             ELSE [err |-> lockErr(lock), batch |-> <<>>,
                   edges |-> edges \cup {<<lctx.startTS, lock.startTS>>}])
       ELSE IF ok THEN [err |-> NoErr, batch |-> <<>>, edges |-> edges]
       ELSE IF IsErr(c.err) THEN [err |-> c.err, batch |-> <<>>, edges |-> edges]
       ELSE [err |-> NoErr, batch |-> <<BatchPut(mvccEncode(mutation.key, lockVer), newLock)>>,
             edges |-> edges]

RECURSIVE PessimisticLockLoop(_, _, _, _, _, _, _)
PessimisticLockLoop(d, edges, mutations, lctx, i, errs, batch) ==
    IF i > Len(mutations) THEN [errs |-> errs, batch |-> batch, edges |-> edges]
    ELSE LET r == pessimisticLockMutation(d, edges, mutations[i], lctx)
         IN IF lctx.noWait /\ r.err.kind = "Locked"
            THEN [errs |-> Append(errs, r.err), batch |-> batch \o r.batch, edges |-> r.edges]
            ELSE PessimisticLockLoop(d, r.edges, mutations, lctx, i + 1,
                                     Append(errs, r.err), batch \o r.batch)

\* The end of PessimisticLock: the batch r collected is written unless a
\* mutation failed.
PessimisticLockWrite(d, r) ==
    IF AnyError(r.errs) THEN [errs |-> r.errs, db |-> d, edges |-> r.edges]
    ELSE [errs |-> r.errs, db |-> Write(d, r.batch), edges |-> r.edges]

\* MVCCLevelDB.PessimisticLock: result [errs, db, edges].
PessimisticLock(d, edges, mutations, lctx) ==
    PessimisticLockWrite(d, PessimisticLockLoop(d, edges, mutations, lctx, 1, <<>>, <<>>))

\* pessimisticRollbackKey: the batch.
pessimisticRollbackKey(d, key, startTS, forUpdateTS) ==
    IF HasLock(d, key) /\ LockOf(d, key).op = "PessimisticLock"
       /\ LockOf(d, key).startTS = startTS /\ LockOf(d, key).forUpdateTS <= forUpdateTS
    THEN <<BatchDelete(mvccEncode(key, lockVer))>>
    ELSE <<>>

(***************************************************************************)
(* Commit and Rollback.                                                    *)
(***************************************************************************)
\* getTxnCommitInfo: [ok, value], the first write record of key with the start ts.
getTxnCommitInfo(d, key, startTS) ==
    LET vals == ValuesOf(d, key)
        hits == {i \in 1..Len(vals) : vals[i].startTS = startTS}
    IN IF hits = {} THEN [ok |-> FALSE, value |-> mvccValue("none", 0, 0, NilValue)]
       ELSE [ok |-> TRUE, value |-> vals[CHOOSE i \in hits : \A j \in hits : i <= j]]


\* A commitLock that stamps the write record with the start ts.
commitLockAtStartTS(lock, key, startTS, commitTS) ==
    <<BatchPut(mvccEncode(key, startTS),
               mvccValue(IF lock.op = "Put" THEN "Put" ELSE "Delete", startTS, startTS, lock.value)),
      BatchDelete(mvccEncode(key, lockVer))>>

\* commitLock: the batch.
commitLock(lock, key, startTS, commitTS) ==
    LET valueType == IF lock.op = "Put" THEN "Put"
                     ELSE IF lock.op = "Lock" THEN "Lock" ELSE "Delete"
    IN <<BatchPut(mvccEncode(key, commitTS), mvccValue(valueType, startTS, commitTS, lock.value)),
         BatchDelete(mvccEncode(key, lockVer))>>

\* A commitKey that does not look at the min_commit_ts of the lock.
commitKeyAnyCommitTS(d, key, startTS, commitTS) ==
    LET ok == HasLock(d, key)
        lock == LockOf(d, key)
        c == getTxnCommitInfo(d, key, startTS)
    IN IF ~ok \/ lock.startTS # startTS
       THEN (IF c.ok /\ c.value.valueType # "Rollback"
             THEN [err |-> NoErr, batch |-> <<>>]
             ELSE [err |-> Err("TxnNotFound", startTS, 0), batch |-> <<>>])
       ELSE [err |-> NoErr, batch |-> commitLock(lock, key, startTS, commitTS)]

\* A commitKey that never looks for the write record of the transaction.
commitKeyNoCommitInfo(d, key, startTS, commitTS) ==
    IF ~HasLock(d, key) \/ LockOf(d, key).startTS # startTS
    THEN [err |-> Err("TxnNotFound", startTS, 0), batch |-> <<>>]
    ELSE IF LockOf(d, key).minCommitTS > commitTS
         THEN [err |-> Err("CommitTsExpired", LockOf(d, key).minCommitTS, 0), batch |-> <<>>]
    ELSE [err |-> NoErr, batch |-> commitLock(LockOf(d, key), key, startTS, commitTS)]

\* commitKey: result [err, batch].
commitKey(d, key, startTS, commitTS) ==
    LET ok == HasLock(d, key)
        lock == LockOf(d, key)
        c == getTxnCommitInfo(d, key, startTS)
    IN IF ~ok \/ lock.startTS # startTS
       THEN (IF c.ok /\ c.value.valueType # "Rollback"
             THEN [err |-> NoErr, batch |-> <<>>]
             ELSE [err |-> Err("TxnNotFound", startTS, 0), batch |-> <<>>])
       ELSE IF lock.minCommitTS > commitTS
            THEN [err |-> Err("CommitTsExpired", lock.minCommitTS, 0), batch |-> <<>>]
       ELSE [err |-> NoErr, batch |-> commitLock(lock, key, startTS, commitTS)]

RECURSIVE CommitLoop(_, _, _, _, _, _)
CommitLoop(d, keys, startTS, commitTS, i, batch) ==
    IF i > Len(keys) THEN [err |-> NoErr, batch |-> batch]
    ELSE LET r == commitKey(d, keys[i], startTS, commitTS)
         IN IF IsErr(r.err) THEN [err |-> r.err, batch |-> <<>>]
            ELSE CommitLoop(d, keys, startTS, commitTS, i + 1, batch \o r.batch)

\* MVCCLevelDB.Commit: result [err, db]; keys is a sequence.
Commit(d, keys, startTS, commitTS) ==
    LET r == CommitLoop(d, keys, startTS, commitTS, 1, <<>>)
    IN IF IsErr(r.err) THEN [err |-> r.err, db |-> d]
       ELSE [err |-> NoErr, db |-> Write(d, r.batch)]

\* writeRollback: the batch.
writeRollback(key, startTS) ==
    <<BatchPut(mvccEncode(key, startTS), mvccValue("Rollback", startTS, startTS, NilValue))>>

\* rollbackLock: the batch.
rollbackLock(key, startTS) ==
    writeRollback(key, startTS) \o <<BatchDelete(mvccEncode(key, lockVer))>>

\* A rollbackKey that deletes the lock of the key whoever holds it.
rollbackKeyAnyLock(d, key, startTS) ==
    IF HasLock(d, key) THEN [err |-> NoErr, batch |-> rollbackLock(key, startTS)]
    ELSE IF getTxnCommitInfo(d, key, startTS).ok
         THEN (IF getTxnCommitInfo(d, key, startTS).value.valueType # "Rollback"
               THEN [err |-> Err("AlreadyCommitted",
                                 getTxnCommitInfo(d, key, startTS).value.commitTS, 0),
                     batch |-> <<>>]
               ELSE [err |-> NoErr, batch |-> <<>>])
    ELSE [err |-> NoErr, batch |-> writeRollback(key, startTS)]

\* rollbackKey: result [err, batch].
rollbackKey(d, key, startTS) ==
    LET c == getTxnCommitInfo(d, key, startTS)
    IN IF HasLock(d, key) /\ LockOf(d, key).startTS = startTS
       THEN [err |-> NoErr, batch |-> rollbackLock(key, startTS)]
       ELSE IF c.ok
            THEN (IF c.value.valueType # "Rollback"
                  THEN [err |-> Err("AlreadyCommitted", c.value.commitTS, 0), batch |-> <<>>]
                  ELSE [err |-> NoErr, batch |-> <<>>])
       ELSE [err |-> NoErr, batch |-> writeRollback(key, startTS)]

RECURSIVE RollbackLoop(_, _, _, _, _)
RollbackLoop(d, keys, startTS, i, batch) ==
    IF i > Len(keys) THEN [err |-> NoErr, batch |-> batch]
    ELSE LET r == rollbackKey(d, keys[i], startTS)
         IN IF IsErr(r.err) THEN [err |-> r.err, batch |-> <<>>]
            ELSE RollbackLoop(d, keys, startTS, i + 1, batch \o r.batch)

\* MVCCLevelDB.Rollback: result [err, db].
Rollback(d, keys, startTS) ==
    LET r == RollbackLoop(d, keys, startTS, 1, <<>>)
    IN IF IsErr(r.err) THEN [err |-> r.err, db |-> d]
       ELSE [err |-> NoErr, db |-> Write(d, r.batch)]

(***************************************************************************)
(* CheckTxnStatus and ResolveLock.                                         *)
(***************************************************************************)

\* A CheckTxnStatus that reports the start ts of a committed transaction as
\* its commit ts.
CheckTxnStatusStartTS(d, primaryKey, lockTS, callerStartTS, currentTS, rollbackIfNotExist, resolvingPessimisticLock) ==
    IF HasLock(d, primaryKey) /\ LockOf(d, primaryKey).startTS = lockTS
    THEN [ttl |-> LockOf(d, primaryKey).ttl, commitTS |-> 0, action |-> "NoAction",
          err |-> NoErr, db |-> d]
    ELSE IF getTxnCommitInfo(d, primaryKey, lockTS).ok
         THEN [ttl |-> 0,
               commitTS |-> IF getTxnCommitInfo(d, primaryKey, lockTS).value.valueType # "Rollback"
                            THEN lockTS ELSE 0,
               action |-> "NoAction", err |-> NoErr, db |-> d]
    ELSE [ttl |-> 0, commitTS |-> 0, action |-> "LockNotExistRollback", err |-> NoErr,
          db |-> Write(d, writeRollback(primaryKey, lockTS))]

\* A CheckTxnStatus that reports an expired lock as rolled back without
\* cleaning it up.
CheckTxnStatusNoCleanUp(d, primaryKey, lockTS, callerStartTS, currentTS, rollbackIfNotExist, resolvingPessimisticLock) ==
    IF HasLock(d, primaryKey) /\ LockOf(d, primaryKey).startTS = lockTS
    THEN (IF ExtractPhysical(lockTS) + LockOf(d, primaryKey).ttl < ExtractPhysical(currentTS)
          THEN [ttl |-> 0, commitTS |-> 0, action |-> "TTLExpireRollback", err |-> NoErr, db |-> d]
          ELSE [ttl |-> LockOf(d, primaryKey).ttl, commitTS |-> 0, action |-> "NoAction",
                err |-> NoErr, db |-> d])
    ELSE IF getTxnCommitInfo(d, primaryKey, lockTS).ok
         THEN [ttl |-> 0,
               commitTS |-> IF getTxnCommitInfo(d, primaryKey, lockTS).value.valueType # "Rollback"
                            THEN getTxnCommitInfo(d, primaryKey, lockTS).value.commitTS ELSE 0,
               action |-> "NoAction", err |-> NoErr, db |-> d]
    ELSE [ttl |-> 0, commitTS |-> 0, action |-> "LockNotExistRollback", err |-> NoErr,
          db |-> Write(d, writeRollback(primaryKey, lockTS))]

\* MVCCLevelDB.CheckTxnStatus: result [ttl, commitTS, action, err, db].
CheckTxnStatus(d, primaryKey, lockTS, callerStartTS, currentTS, rollbackIfNotExist, resolvingPessimisticLock) ==
    LET ok == HasLock(d, primaryKey)
        lock == LockOf(d, primaryKey)
        expired == ExtractPhysical(lock.startTS) + lock.ttl < ExtractPhysical(currentTS)
        pushTo == IF callerStartTS + 1 < currentTS THEN currentTS ELSE callerStartTS + 1
        c == getTxnCommitInfo(d, primaryKey, lockTS)
        res(ttl, commitTS, action, err, db) ==
            [ttl |-> ttl, commitTS |-> commitTS, action |-> action, err |-> err, db |-> db]
    IN IF ok /\ lock.startTS = lockTS
       THEN (IF expired
             THEN (IF resolvingPessimisticLock /\ lock.op = "PessimisticLock"
                   THEN res(0, 0, "TTLExpirePessimisticRollback", NoErr,
                            Write(d, pessimisticRollbackKey(d, primaryKey, lock.startTS, lock.forUpdateTS)))
                   ELSE res(0, 0, "TTLExpireRollback", NoErr, Write(d, rollbackLock(primaryKey, lockTS))))
             ELSE IF callerStartTS = lockVer
                  THEN res(lock.ttl, 0, "MinCommitTSPushed", NoErr, d)
             ELSE IF lock.minCommitTS > 0
                  THEN (IF lock.minCommitTS < callerStartTS + 1
                        THEN res(lock.ttl, 0, "MinCommitTSPushed", NoErr,
                                 Write(d, <<BatchPut(mvccEncode(primaryKey, lockVer),
                                                     [lock EXCEPT !.minCommitTS = pushTo])>>))
                        ELSE res(lock.ttl, 0, "MinCommitTSPushed", NoErr, d))
             ELSE res(lock.ttl, 0, "NoAction", NoErr, d))
       ELSE IF c.ok
            THEN (IF c.value.valueType # "Rollback"
                  THEN res(0, c.value.commitTS, "NoAction", NoErr, d)
                  ELSE res(0, 0, "NoAction", NoErr, d))
       ELSE IF rollbackIfNotExist
            THEN (IF resolvingPessimisticLock
                  THEN res(0, 0, "LockNotExistDoNothing", NoErr, d)
                  ELSE res(0, 0, "LockNotExistRollback", NoErr, Write(d, writeRollback(primaryKey, lockTS))))
       ELSE res(0, 0, "NoAction", Err("TxnNotFound", lockTS, 0), d)

\* A TxnHeartBeat that stores the advised ttl whatever the lock has.
TxnHeartBeatAdvised(d, key, startTS, adviseTTL) ==
    IF HasLock(d, key) /\ LockOf(d, key).startTS = startTS
    THEN [ttl |-> adviseTTL, err |-> NoErr,
          db |-> Write(d, <<BatchPut(mvccEncode(key, lockVer),
                                     [LockOf(d, key) EXCEPT !.ttl = adviseTTL])>>)]
    ELSE [ttl |-> 0, err |-> Err("LockNotExist", startTS, 0), db |-> d]

\* MVCCLevelDB.TxnHeartBeat: result [ttl, err, db].
TxnHeartBeat(d, key, startTS, adviseTTL) ==
    LET ok == HasLock(d, key)
        lock == LockOf(d, key)
    IN IF ok /\ lock.startTS = startTS
       THEN (IF lock.primary # key
             THEN [ttl |-> 0, err |-> Err("NonPrimary", startTS, 0), db |-> d]
             ELSE IF adviseTTL > lock.ttl
                  THEN [ttl |-> adviseTTL, err |-> NoErr,
                        db |-> Write(d, <<BatchPut(mvccEncode(key, lockVer),
                                                   [lock EXCEPT !.ttl = adviseTTL])>>)]
             ELSE [ttl |-> lock.ttl, err |-> NoErr, db |-> d])
       ELSE [ttl |-> 0, err |-> Err("LockNotExist", startTS, 0), db |-> d]

\* The keys a scan iterator over [startKey, endKey) visits (newScanIterator);
\* endKey = 0 stands for the empty end key.
KeysInRange(d, startKey, endKey) ==
    {k \in {x[1] : x \in DOMAIN d} : k >= startKey /\ (endKey = 0 \/ k < endKey)}

RECURSIVE ResolveLoop(_, _, _, _, _)
ResolveLoop(d, keys, startTS, commitTS, batch) ==
    IF keys = <<>> THEN batch
    ELSE LET k == Head(keys)
             b == IF HasLock(d, k) /\ LockOf(d, k).startTS = startTS
                  THEN (IF commitTS > 0 THEN commitLock(LockOf(d, k), k, startTS, commitTS)
                        ELSE rollbackLock(k, startTS))
                  ELSE <<>>
         IN ResolveLoop(d, Tail(keys), startTS, commitTS, batch \o b)

RECURSIVE AscSeq(_)
AscSeq(S) == IF S = {} THEN <<>>
             ELSE LET m == CHOOSE x \in S : \A y \in S : x <= y IN <<m>> \o AscSeq(S \ {m})

\* MVCCLevelDB.ResolveLock: the new db.
ResolveLock(d, startKey, endKey, startTS, commitTS) ==
    Write(d, ResolveLoop(d, AscSeq(KeysInRange(d, startKey, endKey)), startTS, commitTS, <<>>))

\* The inner loop of GC over the records of key, newest first, without the
\* exception for a Delete: the newest record at or below safePoint stays.
RECURSIVE gcValuesKeepNewest(_, _, _, _, _, _)
gcValuesKeepNewest(vals, i, key, safePoint, keepNext, batch) ==
    IF i > Len(vals) THEN batch
    ELSE IF vals[i].commitTS > safePoint
         THEN gcValuesKeepNewest(vals, i + 1, key, safePoint, keepNext, batch)
    ELSE IF vals[i].valueType \in {"Put", "Delete"}
         THEN gcValuesKeepNewest(vals, i + 1, key, safePoint, FALSE,
                  IF ~keepNext THEN Append(batch, BatchDelete(mvccEncode(key, vals[i].commitTS)))
                  ELSE batch)
    ELSE gcValuesKeepNewest(vals, i + 1, key, safePoint, keepNext,
                  Append(batch, BatchDelete(mvccEncode(key, vals[i].commitTS))))

\* The inner loop of GC without the exception for the newest Put: every
\* record at or below safePoint goes.
RECURSIVE gcValuesAll(_, _, _, _, _, _)
gcValuesAll(vals, i, key, safePoint, keepNext, batch) ==
    IF i > Len(vals) THEN batch
    ELSE IF vals[i].commitTS > safePoint
         THEN gcValuesAll(vals, i + 1, key, safePoint, keepNext, batch)
    ELSE gcValuesAll(vals, i + 1, key, safePoint, keepNext,
                     Append(batch, BatchDelete(mvccEncode(key, vals[i].commitTS))))

\* The inner loop of GC over the records of key, newest first: the deletes
\* added to the batch.
RECURSIVE gcValues(_, _, _, _, _, _)
gcValues(vals, i, key, safePoint, keepNext, batch) ==
    IF i > Len(vals) THEN batch
    ELSE IF vals[i].commitTS > safePoint
         THEN gcValues(vals, i + 1, key, safePoint, keepNext, batch)
    ELSE IF vals[i].valueType \in {"Put", "Delete"}
         THEN gcValues(vals, i + 1, key, safePoint, FALSE,
                  IF ~keepNext \/ vals[i].valueType = "Delete"
                  THEN Append(batch, BatchDelete(mvccEncode(key, vals[i].commitTS)))
                  ELSE batch)
    ELSE gcValues(vals, i + 1, key, safePoint, keepNext,
                  Append(batch, BatchDelete(mvccEncode(key, vals[i].commitTS))))

\* The outer loop of GC over the keys of the range: result [err, batch].
RECURSIVE GCLoop(_, _, _, _)
GCLoop(d, keys, safePoint, batch) ==
    IF keys = <<>> THEN [err |-> NoErr, batch |-> batch]
    ELSE LET k == Head(keys)
         IN IF HasLock(d, k) /\ LockOf(d, k).startTS <= safePoint
            THEN [err |-> Err("LockUnderSafePoint", LockOf(d, k).startTS, 0), batch |-> <<>>]
            ELSE GCLoop(d, Tail(keys), safePoint,
                        gcValues(ValuesOf(d, k), 1, k, safePoint, TRUE, batch))

\* MVCCLevelDB.GC: result [err, db].
GC(d, startKey, endKey, safePoint) ==
    LET r == GCLoop(d, AscSeq(KeysInRange(d, startKey, endKey)), safePoint, <<>>)
    IN [err |-> r.err, db |-> IF IsErr(r.err) THEN d ELSE Write(d, r.batch)]

(***************************************************************************)
(* The timestamp oracle of the mock PD (pd.go).  ts is the wall clock in   *)
(* milliseconds read by the call.                                          *)
(***************************************************************************)
\* An oracle that answers with the wall clock alone.
GetTSOfClock(mu, ts) == [physicalTS |-> ts, logicalTS |-> 0]

\* pdClient.GetTS under tsMu: the tsMu after the call, which is what it returns.
GetTS(mu, ts) ==
    IF mu.physicalTS >= ts
    THEN [physicalTS |-> mu.physicalTS, logicalTS |-> mu.logicalTS + 1]
    ELSE [physicalTS |-> ts, logicalTS |-> 0]

\* Largest wall-clock reading and largest logical counter explored.
MaxNow == 3

MaxLogical == 4

(***************************************************************************)
(* PART 2 -- the region cache of internal/locate/region_cache.go.          *)
(* Keys are naturals; a Region object lives in a heap under an object id,  *)
(* so that the maps of the cache can share one object as the Go maps share *)
(* one pointer.  Indexes into slices are zero-based as in the source.      *)
(***************************************************************************)

\* regionCacheTTLSec: the idle time after which a cached region is dropped.
regionCacheTTLSec == 600

\* invalidatedLastAccessTime: the lastAccess of an invalidated region.
invalidatedLastAccessTime == -1

\* The empty key: the least start key and, as an end key, the end of the key space.
EmptyKey == 0

\* The nil *Region.
NoRegion == 0

TiKVStores == {1, 2}

TiFlashStores == {3, 4}

StoreIDs == TiKVStores \cup TiFlashStores

\* Store.storeType.
storeType(s) == IF s \in TiKVStores THEN "TiKV" ELSE "TiFlash"

\* The stores of the peers of a region, in the order of meta.Peers; the
\* leader PD reports is the peer on the first store.
Peers == <<1, 2, 3, 4>>

Put(f, k, v) == [x \in (DOMAIN f) \cup {k} |-> IF x = k THEN v ELSE f[x]]

Drop(f, k) == [x \in (DOMAIN f) \ {k} |-> f[x]]

\* metapb.Region as PD hands it out.
Meta(id, ver, confVer, startKey, endKey) ==
    [id |-> id, ver |-> ver, confVer |-> confVer, startKey |-> startKey, endKey |-> endKey,
     peers |-> Peers]

\* Region.VerID.
VerID(meta) == [id |-> meta.id, confVer |-> meta.confVer, ver |-> meta.ver]

\* contains: startKey <= key < endKey, the empty endKey being the maximum.
contains(startKey, endKey, key) == startKey <= key /\ (key < endKey \/ endKey = EmptyKey)

\* Region.Contains.
Contains(r, key) == contains(r.meta.startKey, r.meta.endKey, key)

\* regionStore.accessStore: the index into stores of the idx-th store of a mode.
accessStore(rs, mode, idx) == rs.accessIndex[mode][idx + 1]

\* regionStore.accessStoreNum.
accessStoreNum(rs, mode) == Len(rs.accessIndex[mode])

\* The zero-based indexes of the peers whose store has the given type.
IndexesOfType(peers, typ) ==
    SelectSeq([i \in 1..Len(peers) |-> i - 1], LAMBDA x : storeType(peers[x + 1]) = typ)

\* Position of store s among the TiKV stores of the peers, 0 if it is none of them.
TiKVPosition(peers, s) ==
    LET ix == IndexesOfType(peers, "TiKV")
        hit == {i \in 1..Len(ix) : peers[ix[i] + 1] = s}
    IN IF hit = {} THEN 0 ELSE (CHOOSE i \in hit : TRUE) - 1

\* newRegion: the Region built from a PD answer; the epochs of the stores are
\* snapshotted, the work TiKV is the leader's, lastAccess is the time of the load.
newRegion(meta, leader, epoch, ts) ==
    [meta |-> meta,
     store |-> [stores |-> meta.peers,
                storeEpochs |-> [i \in 1..Len(meta.peers) |-> epoch[meta.peers[i]]],
                accessIndex |-> [tiKVOnly |-> IndexesOfType(meta.peers, "TiKV"),
                                 tiFlashOnly |-> IndexesOfType(meta.peers, "TiFlash")],
                workTiKVIdx |-> TiKVPosition(meta.peers, leader),
                workTiFlashIdx |-> 0],
     syncFlag |-> "updated",
     lastAccess |-> ts,
     invalidReason |-> "Ok"]

\* Region.checkRegionCacheTTL: false when idle longer than the TTL, else
\* lastAccess is refreshed.
checkRegionCacheTTL(r, ts) ==
    IF ts - r.lastAccess > regionCacheTTLSec
    THEN [ok |-> FALSE, r |-> r]
    ELSE [ok |-> TRUE, r |-> [r EXCEPT !.lastAccess = ts]]

\* Region.invalidate.
invalidate(r, reason) ==
    [r EXCEPT !.invalidReason = reason, !.lastAccess = invalidatedLastAccessTime]

\* Region.scheduleReload.
scheduleReload(r) == IF r.syncFlag # "updated" THEN r ELSE [r EXCEPT !.syncFlag = "needSync"]

\* Region.checkNeedReload.
checkNeedReload(r) == r.syncFlag # "updated"

\* regionStore.switchNextTiKVPeer.
switchNextTiKVPeer(r, currentPeerIdx) ==
    IF r.store.workTiKVIdx # currentPeerIdx THEN r
    ELSE [r EXCEPT !.store.workTiKVIdx = (currentPeerIdx + 1) % accessStoreNum(r.store, "tiKVOnly")]

\* regionStore.switchNextFlashPeer.
switchNextFlashPeer(r, currentPeerIdx) ==
    [r EXCEPT !.store.workTiFlashIdx = (currentPeerIdx + 1) % accessStoreNum(r.store, "tiFlashOnly")]

\* Region.switchWorkLeaderToPeer, for the peer on store s.
switchWorkLeaderToPeer(r, s) ==
    IF \A i \in 1..Len(r.meta.peers) : r.meta.peers[i] # s THEN r
    ELSE [r EXCEPT !.store.workTiKVIdx = TiKVPosition(r.meta.peers, s)]

\* regionStore.follower: a follower whose store epoch is still the snapshotted
\* one, the work TiKV when there is none.
RECURSIVE followerLoop(_, _, _, _)
followerLoop(rs, seed, retry, epoch) ==
    LET l == accessStoreNum(rs, "tiKVOnly")
        f == seed % (l - 1)
        followerIdx == IF f >= rs.workTiKVIdx THEN f + 1 ELSE f
        storeIdx == accessStore(rs, "tiKVOnly", followerIdx)
    IN IF retry = 0 THEN rs.workTiKVIdx
       ELSE IF rs.storeEpochs[storeIdx + 1] = epoch[rs.stores[storeIdx + 1]] THEN followerIdx
       ELSE followerLoop(rs, seed + 1, retry - 1, epoch)

follower(rs, seed, epoch) ==
    IF accessStoreNum(rs, "tiKVOnly") <= 1 THEN rs.workTiKVIdx
    ELSE followerLoop(rs, seed, accessStoreNum(rs, "tiKVOnly") - 1, epoch)

\* regionStore.kvPeer: any TiKV whose store epoch is still the snapshotted one.
kvPeer(rs, seed, epoch) ==
    LET candidates ==
            SelectSeq([i \in 1..accessStoreNum(rs, "tiKVOnly") |-> i - 1],
                      LAMBDA a : rs.storeEpochs[accessStore(rs, "tiKVOnly", a) + 1]
                                 = epoch[rs.stores[accessStore(rs, "tiKVOnly", a) + 1]])
    IN IF Len(candidates) = 0 THEN rs.workTiKVIdx
       ELSE candidates[(seed % Len(candidates)) + 1]

\* The access index GetTiKVRPCContext selects for a replica-read type.
selectPeer(rs, replicaRead, seed, epoch) ==
    CASE replicaRead = "Follower" -> follower(rs, seed, epoch)
      [] replicaRead = "Mixed" -> kvPeer(rs, seed, epoch)
      [] OTHER -> rs.workTiKVIdx

\* The cache c is the record of c.mu (sorted, regions, latestVersions) and the heap.
EmptyCache == [heap |-> <<>>, sorted |-> <<>>, regions |-> <<>>, latestVersions |-> <<>>]

\* A fresh object id.
Alloc(c) == CHOOSE n \in 1..(Cardinality(DOMAIN c.heap) + 1) :
                /\ n \notin DOMAIN c.heap
                /\ \A m \in 1..(n - 1) : m \in DOMAIN c.heap

\* The heap without the objects that neither the maps nor the lookup in
\* progress lk point to, the objects renumbered: those of sorted by start
\* key, then the others.  An object id has no meaning but identity.
Collect(c, lk) ==
    LET keys == AscSeq(DOMAIN c.sorted)
        inSorted == {c.sorted[k] : k \in DOMAIN c.sorted}
        others == ({c.regions[v] : v \in DOMAIN c.regions}
                   \cup (IF lk.mode = "none" THEN {} ELSE {lk.region})) \ inSorted
        order == [i \in 1..Len(keys) |-> c.sorted[keys[i]]] \o AscSeq(others)
        ren(o) == CHOOSE i \in 1..Len(order) : order[i] = o
    IN [c |-> [heap |-> [i \in 1..Len(order) |-> c.heap[order[i]]],
               sorted |-> [k \in DOMAIN c.sorted |-> ren(c.sorted[k])],
               regions |-> [v \in DOMAIN c.regions |-> ren(c.regions[v])],
               latestVersions |-> c.latestVersions],
        lookup |-> IF lk.mode = "none" THEN lk ELSE [lk EXCEPT !.region = ren(@)]]

\* RegionCache.removeVersionFromCache.
removeVersionFromCache(c, oldVer, regionID) ==
    [c EXCEPT !.regions = Drop(c.regions, oldVer),
              !.latestVersions =
                  IF regionID \in DOMAIN c.latestVersions /\ c.latestVersions[regionID] = oldVer
                  THEN Drop(c.latestVersions, regionID) ELSE @]

\* insertRegionToCache without the handling of the replaced item.
insertRegionToCacheKeepOld(c, cachedRegion) ==
    LET n == Alloc(c)
        newVer == VerID(cachedRegion.meta)
    IN [c EXCEPT !.heap = Put(c.heap, n, cachedRegion),
                 !.sorted = Put(c.sorted, cachedRegion.meta.startKey, n),
                 !.regions = Put(c.regions, newVer, n),
                 !.latestVersions = Put(c.latestVersions, newVer.id, newVer)]

\* RegionCache.insertRegionToCache.
insertRegionToCache(c, cachedRegion) ==
    LET n == Alloc(c)
        key == cachedRegion.meta.startKey
        hasOld == key \in DOMAIN c.sorted
        old == c.sorted[key]
        oldRegion == c.heap[old]
        store == cachedRegion.store
        store1 == [store EXCEPT
                     !.workTiKVIdx = IF oldRegion.invalidReason = "NoLeader"
                                     THEN (oldRegion.store.workTiKVIdx + 1)
                                          % accessStoreNum(store, "tiKVOnly")
                                     ELSE @,
                     !.workTiFlashIdx = oldRegion.store.workTiFlashIdx]
        new == IF hasOld THEN [cachedRegion EXCEPT !.store = store1] ELSE cachedRegion
        heap1 == IF hasOld THEN [c.heap EXCEPT ![old] = invalidate(@, "Other")] ELSE c.heap
        c1 == [c EXCEPT !.sorted = Put(c.sorted, key, n), !.heap = Put(heap1, n, new)]
        newVer == VerID(cachedRegion.meta)
        c2 == IF hasOld THEN removeVersionFromCache(c1, VerID(oldRegion.meta), newVer.id) ELSE c1
        c3 == [c2 EXCEPT !.regions = Put(c2.regions, newVer, n)]
        ok == newVer.id \in DOMAIN c3.latestVersions
        latest == c3.latestVersions[newVer.id]
    IN IF ~ok \/ latest.ver < newVer.ver \/ latest.confVer < newVer.confVer
       THEN [c3 EXCEPT !.latestVersions = Put(c3.latestVersions, newVer.id, newVer)]
       ELSE c3

\* The DescendLessOrEqual walk of searchCachedRegion over the items at or
\* below the key: an expired item is skipped, a live one is refreshed and ends it.
RECURSIVE searchWalk(_, _, _, _)
searchWalk(h, items, i, ts) ==
    IF i > Len(items) THEN [r |-> NoRegion, heap |-> h]
    ELSE LET t == checkRegionCacheTTL(h[items[i]], ts)
         IN IF ~t.ok THEN searchWalk(h, items, i + 1, ts)
            ELSE [r |-> items[i], heap |-> [h EXCEPT ![items[i]] = t.r]]

\* searchCachedRegion returning the item the walk stops at, whatever its range.
searchCachedRegionAnyRange(c, key, ts) ==
    LET below == DescSeq({k \in DOMAIN c.sorted : k <= key})
    IN searchWalk(c.heap, [i \in 1..Len(below) |-> c.sorted[below[i]]], 1, ts)

\* RegionCache.searchCachedRegion with isEndKey = false: the object found
\* (or NoRegion) and the heap with the refreshed lastAccess.
searchCachedRegion(c, key, ts) ==
    LET below == DescSeq({k \in DOMAIN c.sorted : k <= key})
        w == searchWalk(c.heap, [i \in 1..Len(below) |-> c.sorted[below[i]]], 1, ts)
    IN IF w.r # NoRegion /\ Contains(w.heap[w.r], key) THEN w
       ELSE [r |-> NoRegion, heap |-> w.heap]

\* RegionCache.getRegionByIDFromCache.
getRegionByIDFromCache(c, regionID, ts) ==
    IF regionID \notin DOMAIN c.latestVersions THEN [r |-> NoRegion, heap |-> c.heap]
    ELSE IF c.latestVersions[regionID] \notin DOMAIN c.regions THEN [r |-> NoRegion, heap |-> c.heap]
    ELSE LET latestRegion == c.regions[c.latestVersions[regionID]]
         IN IF ts - c.heap[latestRegion].lastAccess > regionCacheTTLSec
            THEN [r |-> NoRegion, heap |-> c.heap]
            ELSE [r |-> latestRegion, heap |-> [c.heap EXCEPT ![latestRegion].lastAccess = ts]]

\* PD's GetRegion and GetRegionByID over its regions pd; the leader is the
\* peer on the first store.
GetRegion(pd, key) == CHOOSE m \in pd : contains(m.startKey, m.endKey, key)

HasRegionByID(pd, regionID) == \E m \in pd : m.id = regionID

GetRegionByID(pd, regionID) == CHOOSE m \in pd : m.id = regionID

\* RegionCache.loadRegion and loadRegionByID on an answer of PD.
loadRegion(pd, key, epoch, ts) == newRegion(GetRegion(pd, key), Peers[1], epoch, ts)

loadRegionByID(pd, regionID, epoch, ts) == newRegion(GetRegionByID(pd, regionID), Peers[1], epoch, ts)

\* RegionCache.findRegionByKey with isEndKey = false: the object returned
\* (NoRegion on an error) and the cache; pdOK says whether the PD call succeeds.
findRegionByKey(c, key, ts, pd, epoch, pdOK) ==
    LET s == searchCachedRegion(c, key, ts)
        c0 == [c EXCEPT !.heap = s.heap]
        lr == loadRegion(pd, key, epoch, ts)
    IN IF s.r = NoRegion
       THEN IF pdOK THEN [r |-> Alloc(c0), c |-> insertRegionToCache(c0, lr)]
            ELSE [r |-> NoRegion, c |-> c0]
       ELSE IF checkNeedReload(c0.heap[s.r])
       THEN LET c1 == [c0 EXCEPT !.heap[s.r].syncFlag = "updated"]
            IN IF pdOK THEN [r |-> Alloc(c1), c |-> insertRegionToCache(c1, lr)]
               ELSE [r |-> s.r, c |-> c1]
       ELSE [r |-> s.r, c |-> c0]

\* RegionCache.LocateRegionByID: the object returned (NoRegion on an error) and the cache.
LocateRegionByID(c, regionID, ts, pd, epoch, pdOK) ==
    LET g == getRegionByIDFromCache(c, regionID, ts)
        c0 == [c EXCEPT !.heap = g.heap]
        loaded == pdOK /\ HasRegionByID(pd, regionID)
        lr == loadRegionByID(pd, regionID, epoch, ts)
    IN IF g.r # NoRegion
       THEN IF checkNeedReload(c0.heap[g.r])
            THEN LET c1 == [c0 EXCEPT !.heap[g.r].syncFlag = "updated"]
                 IN IF loaded THEN [r |-> Alloc(c1), c |-> insertRegionToCache(c1, lr)]
                    ELSE [r |-> g.r, c |-> c1]
            ELSE [r |-> g.r, c |-> c0]
       ELSE IF loaded THEN [r |-> Alloc(c0), c |-> insertRegionToCache(c0, lr)]
            ELSE [r |-> NoRegion, c |-> c0]

\* RegionCache.InvalidateCachedRegionWithReason.
InvalidateCachedRegionWithReason(c, id, reason) ==
    IF id \notin DOMAIN c.regions THEN c
    ELSE [c EXCEPT !.heap[c.regions[id]] = invalidate(@, reason)]

\* A markRegionNeedBeRefill that adds one to the epoch without comparing it.
markRegionNeedBeRefillAdd(epoch, s, storeIdx, rs) == [epoch EXCEPT ![s] = @ + 1]

\* RegionCache.markRegionNeedBeRefill: the epochs of the stores after the
\* compare-and-swap from the snapshotted epoch.
markRegionNeedBeRefill(epoch, s, storeIdx, rs) ==
    IF epoch[s] = rs.storeEpochs[storeIdx + 1] THEN [epoch EXCEPT ![s] = @ + 1] ELSE epoch

\* RPCContext: the region version, its meta, the access index and mode, the store.
RPCContext(id, meta, accessIdx, s, mode) ==
    [Region |-> id, Meta |-> meta, AccessIdx |-> accessIdx, Store |-> s, AccessMode |-> mode]

NoCtx == [AccessMode |-> "none"]

\* RegionCache.OnSendFail: the cache and the epochs of the stores.
OnSendFail(c, epoch, ctx, reload, err) ==
    IF ctx.Region \notin DOMAIN c.regions THEN [c |-> c, epoch |-> epoch]
    ELSE LET o == c.regions[ctx.Region]
             r == c.heap[o]
             rs == r.store
             storeIdx == accessStore(rs, ctx.AccessMode, ctx.AccessIdx)
             epoch1 == IF err THEN markRegionNeedBeRefill(epoch, rs.stores[storeIdx + 1], storeIdx, rs)
                       ELSE epoch
             r1 == IF ctx.AccessMode = "tiKVOnly" THEN switchNextTiKVPeer(r, ctx.AccessIdx)
                   ELSE switchNextFlashPeer(r, ctx.AccessIdx)
             r2 == IF reload THEN scheduleReload(r1) ELSE r1
         IN IF Len(ctx.Meta.peers) # Len(r.meta.peers) THEN [c |-> c, epoch |-> epoch]
            ELSE [c |-> [c EXCEPT !.heap[o] = r2], epoch |-> epoch1]

\* insertRegions that stops after the first of the regions.
insertRegionsFirst(c, newRegions, i) ==
    IF Len(newRegions) = 0 THEN c ELSE insertRegionToCache(c, newRegions[1])

RECURSIVE insertRegions(_, _, _)
insertRegions(c, newRegions, i) ==
    IF i > Len(newRegions) THEN c
    ELSE insertRegions(insertRegionToCache(c, newRegions[i]), newRegions, i + 1)

\* An OnRegionEpochNotMatch that never takes the client for being ahead.
OnRegionEpochNotMatchInstall(c, ctx, currentRegions, epoch, ts) ==
    IF Len(currentRegions) = 0
    THEN [c |-> InvalidateCachedRegionWithReason(c, ctx.Region, "EpochNotMatch"), backoff |-> FALSE]
    ELSE [c |-> insertRegions(InvalidateCachedRegionWithReason(c, ctx.Region, "EpochNotMatch"),
                              [i \in 1..Len(currentRegions) |->
                                  switchWorkLeaderToPeer(newRegion(currentRegions[i], 0, epoch, ts),
                                                         ctx.Store)], 1),
          backoff |-> FALSE]

\* RegionCache.OnRegionEpochNotMatch: the cache, and whether the caller backs off.
OnRegionEpochNotMatch(c, ctx, currentRegions, epoch, ts) ==
    IF Len(currentRegions) = 0
    THEN [c |-> InvalidateCachedRegionWithReason(c, ctx.Region, "EpochNotMatch"), backoff |-> FALSE]
    ELSE IF \E i \in 1..Len(currentRegions) :
                /\ currentRegions[i].id = ctx.Region.id
                /\ \/ currentRegions[i].confVer < ctx.Region.confVer
                   \/ currentRegions[i].ver < ctx.Region.ver
    THEN [c |-> c, backoff |-> TRUE]
    ELSE LET initLeaderStoreID == IF storeType(ctx.Store) = "TiFlash" THEN Peers[1] ELSE ctx.Store
             newRegions == [i \in 1..Len(currentRegions) |->
                               switchWorkLeaderToPeer(newRegion(currentRegions[i], 0, epoch, ts),
                                                      initLeaderStoreID)]
             needInvalidateOld == \A i \in 1..Len(newRegions) : VerID(newRegions[i].meta) # ctx.Region
             c1 == IF needInvalidateOld
                   THEN InvalidateCachedRegionWithReason(c, ctx.Region, "EpochNotMatch") ELSE c
         IN [c |-> insertRegions(c1, newRegions, 1), backoff |-> FALSE]

\* A lookup of an RPC context between its two halves: the Region object and
\* the access index it selected (TiKV), or the start index and the round of
\* its loop over the TiFlash stores.
NoLookup == [mode |-> "none"]

\* GetTiKVRPCContext up to the selection of the store: nothing to do for an
\* uncached, to-be-reloaded or expired region.
GetTiKVRPCContextSelect(c, id, replicaRead, seed, epoch, ts) ==
    IF id \notin DOMAIN c.regions THEN [lookup |-> NoLookup, c |-> c]
    ELSE LET o == c.regions[id]
             t == checkRegionCacheTTL(c.heap[o], ts)
         IN IF checkNeedReload(c.heap[o]) \/ ~t.ok THEN [lookup |-> NoLookup, c |-> c]
            ELSE [lookup |-> [mode |-> "tiKVOnly", id |-> id, region |-> o,
                              accessIdx |-> selectPeer(t.r.store, replicaRead, seed, epoch),
                              sIdx |-> 0, i |-> 0],
                  c |-> [c EXCEPT !.heap[o] = t.r]]

\* The store examined by a lookup in progress: its index in stores.
examinedStoreIdx(rs, lk) ==
    IF lk.mode = "tiKVOnly" THEN accessStore(rs, "tiKVOnly", lk.accessIdx)
    ELSE accessStore(rs, "tiFlashOnly", (lk.sIdx + lk.i) % accessStoreNum(rs, "tiFlashOnly"))

\* The second half of GetTiKVRPCContext without the comparison of the epochs.
GetTiKVRPCContextUnchecked(c, lk, epoch) ==
    LET r == c.heap[lk.region]
        storeIdx == examinedStoreIdx(r.store, lk)
    IN [ctx |-> RPCContext(lk.id, r.meta, lk.accessIdx, r.store.stores[storeIdx + 1], "tiKVOnly"),
        c |-> c]

\* GetTiKVRPCContext from the load of the store's epoch on: the region is
\* invalidated when the epoch is not the snapshotted one, else the context is built.
GetTiKVRPCContextBuild(c, lk, epoch) ==
    LET r == c.heap[lk.region]
        storeIdx == examinedStoreIdx(r.store, lk)
        s == r.store.stores[storeIdx + 1]
    IN IF epoch[s] # r.store.storeEpochs[storeIdx + 1]
       THEN [ctx |-> NoCtx, c |-> [c EXCEPT !.heap[lk.region] = invalidate(@, "Other")]]
       ELSE [ctx |-> RPCContext(lk.id, r.meta, lk.accessIdx, s, "tiKVOnly"), c |-> c]

\* GetTiFlashRPCContext up to its loop over the TiFlash stores.
GetTiFlashRPCContextStart(c, id, loadBalance, ts) ==
    IF id \notin DOMAIN c.regions THEN [lookup |-> NoLookup, c |-> c]
    ELSE LET o == c.regions[id]
             t == checkRegionCacheTTL(c.heap[o], ts)
             sIdx == IF loadBalance THEN t.r.store.workTiFlashIdx + 1 ELSE t.r.store.workTiFlashIdx
         IN IF ~t.ok THEN [lookup |-> NoLookup, c |-> c]
            ELSE [lookup |-> [mode |-> "tiFlashOnly", id |-> id, region |-> o, accessIdx |-> 0,
                              sIdx |-> sIdx, i |-> 0],
                  c |-> [c EXCEPT !.heap[o] = [t.r EXCEPT !.store.workTiFlashIdx = sIdx]]]

\* One round of the loop of GetTiFlashRPCContext: a store whose epoch moved
\* invalidates the region and the loop goes on; after the last store it gives up.
GetTiFlashRPCContextRound(c, lk, epoch) ==
    LET r == c.heap[lk.region]
        n == accessStoreNum(r.store, "tiFlashOnly")
        accessIdx == (lk.sIdx + lk.i) % n
        storeIdx == examinedStoreIdx(r.store, lk)
        s == r.store.stores[storeIdx + 1]
        r1 == [r EXCEPT !.store.workTiFlashIdx = accessIdx]
    IN IF epoch[s] # r.store.storeEpochs[storeIdx + 1]
       THEN [ctx |-> NoCtx,
             lookup |-> IF lk.i + 1 < n THEN [lk EXCEPT !.i = @ + 1] ELSE NoLookup,
             c |-> [c EXCEPT !.heap[lk.region] = invalidate(r1, "Other")]]
       ELSE [ctx |-> RPCContext(lk.id, r.meta, accessIdx, s, "tiFlashOnly"),
             lookup |-> NoLookup,
             c |-> [c EXCEPT !.heap[lk.region] = r1]]

\* Versions PD hands out, store epochs and clock ticks explored.
MaxVer == 3

MaxRegionID == 2

MaxEpoch == 1

MaxTicks == 1


(***************************************************************************)
(* PART 3 -- the transactions run against the engine.                      *)
(***************************************************************************)
VARIABLES
    db,        \* the leveldb of MVCCLevelDB: encoded key -> record
    tsMu,      \* the oracle's tsMu: physicalTS, logicalTS
    now,       \* the wall clock, in milliseconds
    detector,  \* the waits-for edges of the deadlock detector
    txn,       \* per transaction: the two-phase committer's state
    resolved,  \* statuses learned by lock resolvers: <<lock ts, commit ts>>
    heap,            \* the Region objects of the region cache, by object id
    sorted,          \* c.mu.sorted: start key -> Region object
    regions,         \* c.mu.regions: RegionVerID -> Region object
    latestVersions,  \* c.mu.latestVersions: region id -> RegionVerID
    storeEpoch,      \* Store.epoch of every store
    pdRegions,       \* the regions of PD
    pdAlloc,         \* the last region id PD allocated
    unixNow,         \* time.Now().Unix()
    loc,             \* the KeyLocation returned by the step, when it is a LocateKey
    rpcCtx,          \* the RPCContext the last lookup returned
    lookup,          \* the lookup of an RPC context in progress
    committer,       \* the twoPhaseCommitter's flags during prewrite
    handlers,        \* the running actionPrewrite.handleSingleBatch calls
    stores,          \* the Store objects made for one store id
    registry,        \* c.storeMu.stores[id]: the current Store object
    pdAddr,          \* the address PD has for the store, 0 once it is removed
    loopJob          \* asyncCheckAndResolveLoop: the store it is re-resolving

mvccVars == <<db, tsMu, now, detector, txn, resolved>>

cacheVars == <<heap, sorted, regions, latestVersions, storeEpoch, pdRegions, pdAlloc, unixNow,
               loc, rpcCtx, lookup>>

storeVars == <<stores, registry, pdAddr, loopJob>>

extVars == <<committer, handlers, storeVars>>

vars == <<mvccVars, cacheVars, extVars>>

Txns == {1, 2, 3}

\* The write sets: transaction 1 is optimistic and writes keys 1 and 2,
\* transaction 2 is pessimistic on key 2, transaction 3 inserts key 1.
txnMutations(t) ==
    IF t = 1 THEN <<Mutation("Put", 1, 11, "None"), Mutation("Del", 2, NilValue, "None")>>
    ELSE IF t = 2 THEN <<Mutation("Put", 2, 12, "Exist")>>
    ELSE <<Mutation("Insert", 1, 13, "NotExist")>>

isPessimistic(t) == t = 2

\* twoPhaseCommitter.primary(): the first key of the mutations.
primary(t) == txnMutations(t)[1].key

KeySeq(muts) == [i \in 1..Len(muts) |-> muts[i].key]

KeySet(muts) == {muts[i].key : i \in 1..Len(muts)}

\* The batches a committer may send: the mutations of an index range.
Batches(t) ==
    {SubSeq(txnMutations(t), i, j) : i \in 1..Len(txnMutations(t)), j \in 1..Len(txnMutations(t))}
        \ {<<>>}

\* A MinCommitTs made from the committer's value and startTS alone.
prewriteMinCommitTSOfStart(minCommitTS, startTS, forUpdateTS) ==
    IF startTS >= minCommitTS THEN startTS + 1 ELSE minCommitTS

\* buildPrewriteRequest, the MinCommitTs of the request, from c.minCommitTS
\* read under c.mu, c.startTS and c.forUpdateTS.
prewriteMinCommitTS(minCommitTS, startTS, forUpdateTS) ==
    IF forUpdateTS > 0 /\ forUpdateTS >= minCommitTS THEN forUpdateTS + 1
    ELSE IF startTS >= minCommitTS THEN startTS + 1
    ELSE minCommitTS

\* twoPhaseCommitter.buildPrewriteRequest of a committer that has no
\* minCommitTS yet; the lock ttl is the short ttl of the twoPCShortLockTTL
\* failpoint, the assertion level is Strict.
buildPrewriteRequest(c, t, batch) ==
    [startTS |-> c.startTS, primary |-> primary(t), forUpdateTS |-> c.forUpdateTS,
     ttl |-> 1, txnSize |-> Len(batch),
     minCommitTS |-> prewriteMinCommitTS(0, c.startTS, c.forUpdateTS),
     assertionLevel |-> "Strict", mutations |-> batch,
     isPessimisticLock |-> [i \in 1..Len(batch) |-> isPessimistic(t)],
     resolvedLocks |-> {}]

ConflictKinds == {"WriteConflict", "Locked", "Deadlock"}

\* The response carries a WriteConflict, Locked or Deadlock error.
Observed(errs) == \E i \in 1..Len(errs) : errs[i].kind \in ConflictKinds

NewTxn ==
    [state |-> "idle", startTS |-> 0, forUpdateTS |-> 0, commitTS |-> 0, locked |-> FALSE,
     prewritten |-> {}, committed |-> {}, observed |-> FALSE]

MVCCInit ==
    /\ db = <<>>
    /\ tsMu = [physicalTS |-> 0, logicalTS |-> 0]
    /\ now = 1
    /\ detector = {}
    /\ txn = [t \in Txns |-> NewTxn]
    /\ resolved = {}

TSOf(mu) == ComposeTS(mu.physicalTS, mu.logicalTS)

\* The wall clock moves on by a millisecond.
Tick ==
    /\ now < MaxNow
    /\ now' = now + 1
    /\ UNCHANGED <<db, tsMu, detector, txn, resolved, cacheVars, extVars>>

\* A timestamp is taken from the oracle.
TakeTS ==
    /\ tsMu' = GetTS(tsMu, now)
    /\ tsMu'.logicalTS <= MaxLogical

\* A transaction starts: start_ts from the oracle.
Begin(t) ==
    /\ txn[t].state = "idle"
    /\ TakeTS
    /\ txn' = [txn EXCEPT ![t].state = "open", ![t].startTS = TSOf(tsMu')]
    /\ UNCHANGED <<db, now, detector, resolved, cacheVars, extVars>>

\* A pessimistic transaction locks its keys, with for_update_ts = start_ts at
\* first and with a fresh for_update_ts after a failure.
LockKeys(t) ==
    /\ isPessimistic(t)
    /\ txn[t].state = "open"
    /\ ~txn[t].locked
    /\ IF txn[t].forUpdateTS = 0 THEN tsMu' = tsMu ELSE TakeTS
    /\ LET fts == IF txn[t].forUpdateTS = 0 THEN txn[t].startTS ELSE TSOf(tsMu')
           muts == [i \in 1..Len(txnMutations(t)) |->
                       Mutation("PessimisticLock", txnMutations(t)[i].key, NilValue, "None")]
           lctx == [startTS |-> txn[t].startTS, forUpdateTS |-> fts, primary |-> primary(t),
                    ttl |-> 1, minCommitTs |-> fts + 1, noWait |-> FALSE]
           r == PessimisticLock(db, detector, muts, lctx)
       IN /\ db' = r.db
          /\ detector' = r.edges
          /\ txn' = [txn EXCEPT ![t].forUpdateTS = fts,
                                ![t].locked = ~AnyError(r.errs),
                                ![t].observed = @ \/ Observed(r.errs)]
    /\ UNCHANGED <<now, resolved, cacheVars, extVars>>

\* A prewrite batch is handled by the engine.
PrewriteBatch(t, batch) ==
    /\ isPessimistic(t) => txn[t].locked
    /\ LET r == Prewrite(db, buildPrewriteRequest(txn[t], t, batch))
       IN /\ db' = r.db
          /\ txn' = [txn EXCEPT ![t].prewritten = IF AnyError(r.errs) THEN @
                                                  ELSE @ \cup KeySet(batch),
                                ![t].observed = @ \/ Observed(r.errs)]
    /\ UNCHANGED <<tsMu, now, detector, resolved, cacheVars, extVars>>

\* The committer sends a batch, or sends it again.
PrewriteReq(t) ==
    /\ txn[t].state = "open"
    /\ \E batch \in Batches(t) : PrewriteBatch(t, batch)

\* A batch sent before the committer gave up arrives after the rollback.
LatePrewrite(t) ==
    /\ txn[t].state = "aborted"
    /\ \E batch \in Batches(t) : PrewriteBatch(t, batch)

\* All keys are prewritten: commit_ts from the oracle.
GetCommitTS(t) ==
    /\ txn[t].state = "open"
    /\ txn[t].prewritten = KeySet(txnMutations(t))
    /\ TakeTS
    /\ txn' = [txn EXCEPT ![t].state = "committing", ![t].commitTS = TSOf(tsMu')]
    /\ UNCHANGED <<db, now, detector, resolved, cacheVars, extVars>>

\* Commit of one key of the transaction.
CommitKeyReq(t, k) ==
    LET r == Commit(db, <<k>>, txn[t].startTS, txn[t].commitTS)
    IN /\ db' = r.db
       /\ txn' = [txn EXCEPT ![t].state = IF ~IsErr(r.err) THEN "committed"
                                          ELSE IF r.err.kind = "CommitTsExpired" THEN "open"
                                          ELSE IF @ = "committed" THEN @ ELSE "aborted",
                             ![t].committed = IF IsErr(r.err) THEN @ ELSE @ \cup {k},
                             ![t].observed = @ \/ Observed(<<r.err>>)]
       /\ detector' = DetectorCleanUp(detector, txn[t].startTS)
       /\ UNCHANGED <<tsMu, now, resolved, cacheVars, extVars>>

\* The primary key is committed; CommitTsExpired makes the committer take a
\* new commit_ts, another error ends the transaction.
CommitPrimary(t) ==
    /\ txn[t].state = "committing"
    /\ CommitKeyReq(t, primary(t))

\* A secondary key is committed after the primary.
CommitSecondary(t) ==
    /\ txn[t].state = "committed"
    /\ \E k \in KeySet(txnMutations(t)) \ txn[t].committed : CommitKeyReq(t, k)

\* The committer gives up before committing and rolls its keys back.
RollbackReq(t) ==
    /\ txn[t].state = "open"
    /\ db' = Rollback(db, KeySeq(txnMutations(t)), txn[t].startTS).db
    /\ txn' = [txn EXCEPT ![t].state = "aborted"]
    /\ detector' = DetectorCleanUp(detector, txn[t].startTS)
    /\ UNCHANGED <<tsMu, now, resolved, cacheVars, extVars>>

(***************************************************************************)
(* Lock resolution by other clients (LockResolver): CheckTxnStatus on the  *)
(* primary of a lock that was met, then ResolveLock with a definitive      *)
(* status.                                                                 *)
(***************************************************************************)
\* The status is definitive when the transaction is committed or rolled back.
Definitive(r) ==
    /\ ~IsErr(r.err)
    /\ \/ r.commitTS > 0
       \/ r.ttl = 0 /\ r.action \notin {"TTLExpirePessimisticRollback", "LockNotExistDoNothing"}

\* The oracle's low resolution timestamp.
lowResolutionTS == TSOf(IF tsMu.physicalTS >= now THEN tsMu ELSE [physicalTS |-> now, logicalTS |-> 0])

\* The start_ts values a resolving reader may have, and MaxUint64 for a point get.
Callers(lockTS) ==
    ({txn[c].startTS : c \in {x \in Txns : txn[x].state # "idle"}} \ {lockTS}) \cup {lockVer}

CheckLock(k, caller) ==
    LET lock == LockOf(db, k)
        r == CheckTxnStatus(db, lock.primary, lock.startTS, caller, lowResolutionTS,
                            TRUE, lock.op = "PessimisticLock")
    IN /\ db' = r.db
       /\ resolved' = IF Definitive(r) THEN resolved \cup {<<lock.startTS, r.commitTS>>}
                      ELSE resolved
       /\ UNCHANGED <<tsMu, now, detector, txn, cacheVars, extVars>>

CheckTxnStatusReq ==
    \E k \in Keys :
      /\ HasLock(db, k)
      /\ \E caller \in Callers(LockOf(db, k).startTS) : CheckLock(k, caller)

\* The key ranges of the regions a resolver sends ResolveLock to; 0 is the
\* empty (unbounded) key.
Ranges == {<<0, 2>>, <<2, 0>>}

ResolveLockReq ==
    \E s \in resolved, rg \in Ranges :
      /\ \E k \in KeysInRange(db, rg[1], rg[2]) : HasLock(db, k) /\ LockOf(db, k).startTS = s[1]
      /\ db' = ResolveLock(db, rg[1], rg[2], s[1], s[2])
      /\ UNCHANGED <<tsMu, now, detector, txn, resolved, cacheVars, extVars>>

(***************************************************************************)
(* PART 4 -- the clients of the region cache, PD and the clock.            *)
(***************************************************************************)
Cache == [heap |-> heap, sorted |-> sorted, regions |-> regions, latestVersions |-> latestVersions]

\* The cache becomes c and the lookup in progress lk.
SetCache(c, lk) ==
    LET g == Collect(c, lk)
    IN /\ heap' = g.c.heap
       /\ sorted' = g.c.sorted
       /\ regions' = g.c.regions
       /\ latestVersions' = g.c.latestVersions
       /\ lookup' = g.lookup

NoLoc == [found |-> FALSE]

\* KeyLocation of the object o of cache c, for the key asked.
KeyLocation(c, o, key) ==
    [found |-> TRUE, key |-> key, Region |-> VerID(c.heap[o].meta),
     StartKey |-> c.heap[o].meta.startKey, EndKey |-> c.heap[o].meta.endKey]

\* Unix time at the start: far beyond the TTL, as time.Now().Unix() is.
StartUnix == 2 * regionCacheTTLSec

\* After NewRegionCache: nothing cached; PD has one region over all keys.
CacheInit ==
    /\ heap = <<>>
    /\ sorted = <<>>
    /\ regions = <<>>
    /\ latestVersions = <<>>
    /\ storeEpoch = [s \in StoreIDs |-> 0]
    /\ pdRegions = {Meta(1, 1, 1, EmptyKey, EmptyKey)}
    /\ pdAlloc = 1
    /\ unixNow = StartUnix
    /\ loc = NoLoc
    /\ rpcCtx = NoCtx
    /\ lookup = NoLookup

SplitKeys == {1}

LookupKeys == {0, 1}

\* PD splits region m at key k; the new region id goes to the left or the
\* right part, and both parts get the next version.
PDSplit(m, k, newLeft) ==
    /\ m.startKey < k
    /\ contains(m.startKey, m.endKey, k)
    /\ m.ver < MaxVer
    /\ pdAlloc < MaxRegionID
    /\ pdAlloc' = pdAlloc + 1
    /\ pdRegions' = (pdRegions \ {m}) \cup
          {Meta(IF newLeft THEN pdAlloc + 1 ELSE m.id, m.ver + 1, m.confVer, m.startKey, k),
           Meta(IF newLeft THEN m.id ELSE pdAlloc + 1, m.ver + 1, m.confVer, k, m.endKey)}
    /\ loc' = NoLoc
    /\ UNCHANGED <<heap, sorted, regions, latestVersions, storeEpoch, unixNow, rpcCtx, lookup, mvccVars, extVars>>

\* PD merges the adjacent regions a and b into the one of them that is kept.
PDMerge(a, b, keepLeft) ==
    /\ a.endKey # EmptyKey
    /\ a.endKey = b.startKey
    /\ MaxOf({a.ver, b.ver}) < MaxVer
    /\ pdRegions' = (pdRegions \ {a, b}) \cup
          {Meta(IF keepLeft THEN a.id ELSE b.id, MaxOf({a.ver, b.ver}) + 1,
                IF keepLeft THEN a.confVer ELSE b.confVer, a.startKey, b.endKey)}
    /\ loc' = NoLoc
    /\ UNCHANGED <<heap, sorted, regions, latestVersions, storeEpoch, pdAlloc, unixNow, rpcCtx, lookup, mvccVars, extVars>>

\* Time passes: just the TTL, or a second more.
CacheTick(d) ==
    /\ unixNow + d <= StartUnix + MaxTicks * (regionCacheTTLSec + 1)
    /\ unixNow' = unixNow + d
    /\ loc' = NoLoc
    /\ UNCHANGED <<heap, sorted, regions, latestVersions, storeEpoch, pdRegions, pdAlloc, rpcCtx, lookup, mvccVars, extVars>>

\* RegionCache.LocateKey.
LocateKey(key, pdOK) ==
    LET f == findRegionByKey(Cache, key, unixNow, pdRegions, storeEpoch, pdOK)
    IN /\ loc' = IF f.r = NoRegion THEN NoLoc ELSE KeyLocation(f.c, f.r, key)
       /\ SetCache(f.c, lookup)
       /\ UNCHANGED <<storeEpoch, pdRegions, pdAlloc, unixNow, rpcCtx, mvccVars, extVars>>

\* RegionCache.LocateRegionByID.
LocateRegionByIDReq(regionID, pdOK) ==
    LET f == LocateRegionByID(Cache, regionID, unixNow, pdRegions, storeEpoch, pdOK)
    IN /\ SetCache(f.c, lookup)
       /\ loc' = NoLoc
       /\ UNCHANGED <<storeEpoch, pdRegions, pdAlloc, unixNow, rpcCtx, mvccVars, extVars>>

\* RegionCache.InvalidateCachedRegionWithReason on a cached version.
InvalidateCachedRegion(id, reason) ==
    /\ id \in DOMAIN regions
    /\ heap[regions[id]].lastAccess # invalidatedLastAccessTime
    /\ SetCache(InvalidateCachedRegionWithReason(Cache, id, reason), lookup)
    /\ loc' = NoLoc
    /\ UNCHANGED <<storeEpoch, pdRegions, pdAlloc, unixNow, rpcCtx, mvccVars, extVars>>

\* The contexts clients can hold: the one of the last lookup, and for a
\* cached version any context a lookup right after its insertion returns.
ContextOf(c, id, mode, a) ==
    LET r == c.heap[c.regions[id]]
    IN RPCContext(id, r.meta, a, r.store.stores[accessStore(r.store, mode, a) + 1], mode)

ContextsOf(modes) ==
    {ContextOf(Cache, x[1], x[2], x[3]) :
        x \in {y \in (DOMAIN regions) \X modes \X (0..Len(Peers)) :
                  y[3] < accessStoreNum(heap[regions[y[1]]].store, y[2])}}
    \cup ({rpcCtx} \ {NoCtx})

Contexts == ContextsOf({"tiKVOnly", "tiFlashOnly"})

TiKVContexts == ContextsOf({"tiKVOnly"})

\* RegionCache.OnSendFail for a failed request sent with ctx.
OnSendFailReq(ctx, reload, err) ==
    LET f == OnSendFail(Cache, storeEpoch, ctx, reload, err)
    IN /\ \A s \in StoreIDs : f.epoch[s] <= MaxEpoch
       /\ storeEpoch' = f.epoch
       /\ SetCache(f.c, lookup)
       /\ loc' = NoLoc
       /\ UNCHANGED <<pdRegions, pdAlloc, unixNow, rpcCtx, mvccVars, extVars>>

\* The regions of PD that overlap the range of meta, by start key: what a
\* store answers in an EpochNotMatch error.
CurrentRegions(meta) ==
    LET S == {m \in pdRegions :
                 /\ m.endKey = EmptyKey \/ meta.startKey < m.endKey
                 /\ meta.endKey = EmptyKey \/ m.startKey < meta.endKey}
        ks == AscSeq({m.startKey : m \in S})
    IN [i \in 1..Len(ks) |-> CHOOSE m \in S : m.startKey = ks[i]]

\* RegionCache.OnRegionEpochNotMatch for a request sent with ctx whose region
\* version is not PD's any more; the store lists the current regions or none.
OnRegionEpochNotMatchReq(ctx, listed) ==
    /\ \A m \in pdRegions : VerID(m) # ctx.Region
    /\ LET f == OnRegionEpochNotMatch(Cache, ctx, IF listed THEN CurrentRegions(ctx.Meta) ELSE <<>>,
                                      storeEpoch, unixNow)
       IN SetCache(f.c, lookup)
    /\ loc' = NoLoc
    /\ UNCHANGED <<storeEpoch, pdRegions, pdAlloc, unixNow, rpcCtx, mvccVars, extVars>>

\* GetTiKVRPCContext, first half: no lookup is in progress.
TiKVLookup(id, replicaRead, seed) ==
    /\ lookup = NoLookup
    /\ LET f == GetTiKVRPCContextSelect(Cache, id, replicaRead, seed, storeEpoch, unixNow)
       IN /\ rpcCtx' = NoCtx
          /\ SetCache(f.c, f.lookup)
    /\ loc' = NoLoc
    /\ UNCHANGED <<storeEpoch, pdRegions, pdAlloc, unixNow, mvccVars, extVars>>

\* GetTiKVRPCContext, second half.
TiKVBuild ==
    /\ lookup.mode = "tiKVOnly"
    /\ LET f == GetTiKVRPCContextBuild(Cache, lookup, storeEpoch)
       IN /\ rpcCtx' = f.ctx
          /\ SetCache(f.c, NoLookup)
    /\ loc' = NoLoc
    /\ UNCHANGED <<storeEpoch, pdRegions, pdAlloc, unixNow, mvccVars, extVars>>

\* GetTiFlashRPCContext up to its loop.
TiFlashLookup(id, loadBalance) ==
    /\ lookup = NoLookup
    /\ LET f == GetTiFlashRPCContextStart(Cache, id, loadBalance, unixNow)
       IN /\ rpcCtx' = NoCtx
          /\ SetCache(f.c, f.lookup)
    /\ loc' = NoLoc
    /\ UNCHANGED <<storeEpoch, pdRegions, pdAlloc, unixNow, mvccVars, extVars>>

\* GetTiFlashRPCContext, one round of its loop.
TiFlashRound ==
    /\ lookup.mode = "tiFlashOnly"
    /\ LET f == GetTiFlashRPCContextRound(Cache, lookup, storeEpoch)
       IN /\ rpcCtx' = f.ctx
          /\ SetCache(f.c, f.lookup)
    /\ loc' = NoLoc
    /\ UNCHANGED <<storeEpoch, pdRegions, pdAlloc, unixNow, mvccVars, extVars>>

(***************************************************************************)
(* The prewrite of the two-phase committer: actionPrewrite.handleSingleBatch *)
(* run for the batches of one transaction.  The request sender, the region  *)
(* cache and the store are the environment of a handler: SendReq answers    *)
(* with an error, a region error, key errors or a success body, and the     *)
(* sender keeps the last RPC error it met until it is cleared.               *)
(***************************************************************************)
NoRPCError == "nil"

\* The committer before execute: no mode chosen, nothing recorded.
NewCommitter ==
    [state |-> "init", batches |-> 0, useAsyncCommit |-> FALSE, useOnePC |-> FALSE,
     prewriteCancelled |-> FALSE, ctxCancelled |-> FALSE, undeterminedErr |-> NoRPCError,
     onePCCommitTS |-> 0, minCommitTS |-> 0, fatal |-> FALSE]

\* A handleSingleBatch call: where it is, the sender's rpcError, the error it
\* returns, what made it end, the call it was started from (0: none), and
\* the number of sleeps its Backoffer has made.
NewHandler ==
    [pc |-> "idle", rpcErr |-> NoRPCError, err |-> FALSE, cause |-> "none", parent |-> 0,
     backoffs |-> 0]

\* The deferred function without the test of prewriteCancelled.
setUndeterminedIgnoringCancel(c, rpcErr, err) ==
    IF err /\ (c.useAsyncCommit \/ c.useOnePC) /\ rpcErr # NoRPCError
    THEN [c EXCEPT !.undeterminedErr = rpcErr] ELSE c

\* The deferred function without the test of the commit mode.
setUndeterminedAnyMode(c, rpcErr, err) ==
    IF err /\ rpcErr # NoRPCError /\ ~c.prewriteCancelled
    THEN [c EXCEPT !.undeterminedErr = rpcErr] ELSE c

\* The deferred function of handleSingleBatch: the committer after it, for
\* the sender's rpcError and the error the handler returns.
setUndeterminedErr(c, rpcErr, err) ==
    IF err /\ (c.useAsyncCommit \/ c.useOnePC) /\ rpcErr # NoRPCError /\ ~c.prewriteCancelled
    THEN [c EXCEPT !.undeterminedErr = rpcErr] ELSE c

\* A prewrite response without key errors.
PrewriteResponse(onePcCommitTs, minCommitTs) ==
    [OnePcCommitTs |-> onePcCommitTs, MinCommitTs |-> minCommitTs]

\* The 1PC branch that falls back whatever min_commit_ts the response carries.
onePCResponseAlwaysFallsBack(c, resp) ==
    IF resp.OnePcCommitTs = 0
    THEN [c |-> [c EXCEPT !.useOnePC = FALSE, !.useAsyncCommit = FALSE], err |-> FALSE]
    ELSE IF c.onePCCommitTS # 0 THEN [c |-> [c EXCEPT !.fatal = TRUE], err |-> FALSE]
    ELSE [c |-> [c EXCEPT !.onePCCommitTS = resp.OnePcCommitTs], err |-> FALSE]

\* handleSingleBatch on a response without key errors while isOnePC().
onePCResponse(c, resp) ==
    IF resp.OnePcCommitTs = 0
    THEN IF resp.MinCommitTs # 0 THEN [c |-> c, err |-> TRUE]
         ELSE [c |-> [c EXCEPT !.useOnePC = FALSE, !.useAsyncCommit = FALSE], err |-> FALSE]
    ELSE IF c.onePCCommitTS # 0 THEN [c |-> [c EXCEPT !.fatal = TRUE], err |-> FALSE]
    ELSE [c |-> [c EXCEPT !.onePCCommitTS = resp.OnePcCommitTs], err |-> FALSE]

\* handleSingleBatch on a response without key errors that stores the
\* min_commit_ts of the response without comparing it.
onPrewriteSuccessLast(c, resp) ==
    IF c.useOnePC THEN onePCResponse(c, resp)
    ELSE IF resp.OnePcCommitTs # 0 THEN [c |-> [c EXCEPT !.fatal = TRUE], err |-> FALSE]
    ELSE IF ~c.useAsyncCommit THEN [c |-> c, err |-> FALSE]
    ELSE IF resp.MinCommitTs = 0 THEN [c |-> [c EXCEPT !.useAsyncCommit = FALSE], err |-> FALSE]
    ELSE [c |-> [c EXCEPT !.minCommitTS = resp.MinCommitTs], err |-> FALSE]

\* handleSingleBatch on a response without key errors: the committer and
\* whether an error is returned.
onPrewriteSuccess(c, resp) ==
    IF c.useOnePC THEN onePCResponse(c, resp)
    ELSE IF resp.OnePcCommitTs # 0 THEN [c |-> [c EXCEPT !.fatal = TRUE], err |-> FALSE]
    ELSE IF ~c.useAsyncCommit THEN [c |-> c, err |-> FALSE]
    ELSE IF resp.MinCommitTs = 0 THEN [c |-> [c EXCEPT !.useAsyncCommit = FALSE], err |-> FALSE]
    ELSE [c |-> [c EXCEPT !.minCommitTS = IF resp.MinCommitTs > @ THEN resp.MinCommitTs ELSE @],
          err |-> FALSE]

\* The handlers: 1 and 2 for the batches of the transaction, 3 for the
\* batch a handler sends again after a region error.
Handlers == {1, 2, 3}

RetryHandler == 3

OnePcCommitTsValues == {0, 9}

MinCommitTsValues == {0, 8}

PrewriteInit ==
    /\ committer = NewCommitter
    /\ handlers = [b \in Handlers |-> NewHandler]

\* execute: the commit mode is chosen; 1PC needs all mutations in one batch.
ExecuteReq(async, onePC, n) ==
    /\ committer.state = "init"
    /\ onePC => n = 1
    /\ committer' = [committer EXCEPT !.state = "prewriting", !.batches = n,
                                      !.useAsyncCommit = async, !.useOnePC = onePC]
    /\ UNCHANGED <<handlers, mvccVars, cacheVars, storeVars>>

Running == committer.state = "prewriting" /\ ~committer.fatal

\* handleSingleBatch is called for batch b: the request is built and a
\* sender made.
HandlerStart(b) ==
    /\ Running
    /\ b <= committer.batches
    /\ handlers[b].pc = "idle"
    /\ handlers' = [handlers EXCEPT ![b].pc = "send"]
    /\ UNCHANGED <<committer, mvccVars, cacheVars, storeVars>>

\* The handler ends with an error or without one; its deferred function
\* has not run yet.
Ends(b, rpcErr, err, cause) ==
    [handlers EXCEPT ![b].pc = "returning", ![b].rpcErr = rpcErr, ![b].err = err,
                     ![b].cause = cause]

\* The RPC error the sender holds after a SendReq: that of the cancelled
\* context, the transport error met in this call, or the one it held.
SenderError(b, rpc) ==
    IF committer.ctxCancelled THEN "cancel"
    ELSE IF rpc THEN "transport" ELSE handlers[b].rpcErr

\* sender.SendReq returns an error: a transport error after the retries, the
\* cancelled context, or an error of another kind (rpc = FALSE).
SendReqFails(b, rpc) ==
    /\ Running
    /\ handlers[b].pc = "send"
    /\ committer.ctxCancelled => rpc
    /\ handlers' = Ends(b, SenderError(b, rpc), TRUE, IF rpc THEN "rpc" ELSE "other")
    /\ UNCHANGED <<committer, mvccVars, cacheVars, storeVars>>

\* The sleeps a Backoffer makes before Backoff returns an error.
MaxBackoffs == 1

\* Backoffer.Backoff after n sleeps: no budget is left.
BackoffFails(n) == n >= MaxBackoffs

\* The region errors of a response: a real EpochNotMatch, the fake one the
\* sender makes, DiskFull, and the others.
RegionErrorKinds == {"EpochNotMatch", "FakeEpochNotMatch", "DiskFull", "Other"}

\* What batch.relocate and the grouping of the mutations give: an error, the
\* same region, or other regions with the mutations in one batch or several.
Relocations == {"err", "same", "one", "split"}

\* A handling of a region error that backs off for every region error.
onRegionErrorBackoffAll(kind, backoffErr, relocate) ==
    [how |-> IF backoffErr \/ kind = "DiskFull" \/ relocate = "err" THEN "fail" ELSE relocate,
     backoff |-> "BoRegionMiss", slept |-> ~backoffErr]

\* handleSingleBatch on a region error: what the handler does (fail: it
\* returns an error, same: it sends again), the backoff it asked for and
\* whether that slept.
onRegionError(kind, backoffErr, relocate) ==
    IF kind # "EpochNotMatch" /\ backoffErr
    THEN [how |-> "fail", backoff |-> "BoRegionMiss", slept |-> FALSE]
    ELSE [how |-> IF kind = "DiskFull" \/ relocate = "err" THEN "fail" ELSE relocate,
          backoff |-> IF kind # "EpochNotMatch" THEN "BoRegionMiss" ELSE "none",
          slept |-> kind # "EpochNotMatch"]

\* The number of sleeps after an iteration of the handler.
Slept(n, slept) == IF slept THEN n + 1 ELSE n

\* The response carries a region error: the handler gives up (backoff,
\* DiskFull, relocate), sends again to the same region, or has the
\* mutations prewritten by another call, in one batch or split in several.
RegionError(b, rpc, kind, relocate) ==
    /\ Running
    /\ handlers[b].pc = "send"
    /\ ~committer.ctxCancelled
    /\ LET o == onRegionError(kind, BackoffFails(handlers[b].backoffs), relocate)
           n == Slept(handlers[b].backoffs, o.slept)
       IN CASE o.how = "fail" ->
                 /\ handlers' = [Ends(b, SenderError(b, rpc), TRUE, "region") EXCEPT ![b].backoffs = n]
                 /\ UNCHANGED committer
            [] o.how = "same" ->
                 /\ handlers' = [handlers EXCEPT ![b].rpcErr = SenderError(b, rpc),
                                                 ![b].backoffs = n]
                 /\ UNCHANGED committer
            [] OTHER ->
                 /\ b # RetryHandler
                 /\ handlers[RetryHandler].pc = "idle"
                 /\ handlers' = [handlers EXCEPT ![b].pc = "nested",
                                                 ![b].rpcErr = SenderError(b, rpc),
                                                 ![b].backoffs = n,
                                                 ![RetryHandler].pc = "send",
                                                 ![RetryHandler].parent = b,
                                                 ![RetryHandler].backoffs = n]
                 /\ committer' = IF o.how = "split" THEN [committer EXCEPT !.useOnePC = FALSE]
                                 ELSE committer
    /\ UNCHANGED <<mvccVars, cacheVars, storeVars>>

\* doActionOnMutations returns to the handler that called it.
NestedReturn(b) ==
    /\ Running
    /\ handlers[b].pc = "nested"
    /\ handlers[RetryHandler].pc = "done"
    /\ handlers[RetryHandler].parent = b
    /\ handlers' = [Ends(b, handlers[b].rpcErr, handlers[RetryHandler].err, "region")
                       EXCEPT ![RetryHandler].parent = 0]
    /\ UNCHANGED <<committer, mvccVars, cacheVars, storeVars>>

\* The key errors of a prewrite response: AlreadyExist on a key, or a lock
\* of the transaction started at ts on a key.
KeyErrorValues ==
    [kind : {"AlreadyExist"}, ts : {0}, key : {1, 2}] \cup [kind : {"Locked"}, ts : {4, 6}, key : {1, 2}]

\* A response has at most one error for a key, in the order of the mutations.
KeyErrorLists ==
    {<<e>> : e \in KeyErrorValues}
        \cup {<<e, f>> : e \in {x \in KeyErrorValues : x.key = 1},
                         f \in {x \in KeyErrorValues : x.key = 2}}

CommitterStartTS == {5}

\* What the lock resolver and the backoff after it answer: ResolveLocks fails
\* or gives msBeforeExpired, and the Backoffer may have no budget left.
ResolveAnswers ==
    {[resolveErr |-> TRUE, msBeforeExpired |-> 0, backoffErr |-> FALSE],
     [resolveErr |-> FALSE, msBeforeExpired |-> 0, backoffErr |-> FALSE]}
        \cup [resolveErr : {FALSE}, msBeforeExpired : {3}, backoffErr : BOOLEAN]

NoLock == [kind |-> "none", ts |-> 0, key |-> 0]

\* The loop over the key errors that looks for every lock of a larger
\* transaction before it looks for AlreadyExist.
RECURSIVE keyErrLoopConflictFirst(_, _, _, _, _)
keyErrLoopConflictFirst(startTS, pessimistic, keyErrs, i, locks) ==
    LET larger == {j \in 1..Len(keyErrs) : keyErrs[j].kind = "Locked" /\ keyErrs[j].ts > startTS}
        exists == {j \in 1..Len(keyErrs) : keyErrs[j].kind = "AlreadyExist"}
        first(S) == keyErrs[CHOOSE j \in S : \A l \in S : j <= l]
    IN  IF larger # {} /\ ~pessimistic
        THEN [ret |-> "WriteConflict", by |-> first(larger), locks |-> <<>>]
        ELSE IF exists # {}
        THEN [ret |-> "KeyExist", by |-> first(exists), locks |-> <<>>]
        ELSE [ret |-> "locks", by |-> NoLock, locks |-> keyErrs]

\* handleSingleBatch, the loop over keyErrs from the i-th on: the error it
\* returns with, and the key error it is made from, or the locks collected.
RECURSIVE keyErrLoop(_, _, _, _, _)
keyErrLoop(startTS, pessimistic, keyErrs, i, locks) ==
    IF i > Len(keyErrs) THEN [ret |-> "locks", by |-> NoLock, locks |-> locks]
    ELSE IF keyErrs[i].kind = "AlreadyExist"
    THEN [ret |-> "KeyExist", by |-> keyErrs[i], locks |-> locks]
    ELSE IF keyErrs[i].ts > startTS /\ ~pessimistic
    THEN [ret |-> "WriteConflict", by |-> keyErrs[i], locks |-> locks]
    ELSE keyErrLoop(startTS, pessimistic, keyErrs, i + 1, Append(locks, keyErrs[i]))

\* handleSingleBatch on a response with key errors: the error returned
\* ("none": the batch is sent again), the key error it is made from, the
\* locks given to ResolveLocks (resolved: it was called) and the backoff.
onKeyErrors(startTS, pessimistic, keyErrs, ans) ==
    LET w == keyErrLoop(startTS, pessimistic, keyErrs, 1, <<>>)
    IN  IF w.ret # "locks"
        THEN [ret |-> w.ret, by |-> w.by, resolved |-> FALSE, locks |-> <<>>, backoff |-> "none"]
        ELSE IF ans.resolveErr
        THEN [ret |-> "resolve", by |-> NoLock, resolved |-> TRUE, locks |-> w.locks,
              backoff |-> "none"]
        ELSE IF ans.msBeforeExpired > 0
        THEN [ret |-> IF ans.backoffErr THEN "backoff" ELSE "none", by |-> NoLock,
              resolved |-> TRUE, locks |-> w.locks, backoff |-> "BoTxnLock"]
        ELSE [ret |-> "none", by |-> NoLock, resolved |-> TRUE, locks |-> w.locks,
              backoff |-> "none"]

\* What handleSingleBatch makes of the responses with key errors.
KeyErrorOutcomes ==
    {onKeyErrors(startTS, pessimistic, keyErrs, ans) :
        startTS \in CommitterStartTS, pessimistic \in BOOLEAN, keyErrs \in KeyErrorLists,
        ans \in ResolveAnswers}

\* The response carries key errors: an error is returned (AlreadyExist,
\* WriteConflict, a failed lock resolution or backoff), or the locks are
\* resolved and the batch is sent again.
\* o is what the handler makes of the key errors of some response and of
\* the answers to it; the backoff fails when no budget is left.
KeyErrors(b, rpc, o) ==
    /\ Running
    /\ handlers[b].pc = "send"
    /\ ~committer.ctxCancelled
    /\ o.backoff = "BoTxnLock" => (o.ret = "backoff" <=> BackoffFails(handlers[b].backoffs))
    /\ handlers' = IF o.ret # "none"
                   THEN Ends(b, SenderError(b, rpc), TRUE, "key")
                   ELSE [handlers EXCEPT ![b].rpcErr = SenderError(b, rpc),
                                         ![b].backoffs = Slept(@, o.backoff = "BoTxnLock")]
    /\ UNCHANGED <<committer, mvccVars, cacheVars, storeVars>>

\* The response carries no key error: the sender's RPC error is cleared and
\* the response is looked at.
PrewriteSucceeds(b, resp) ==
    /\ Running
    /\ handlers[b].pc = "send"
    /\ ~committer.ctxCancelled
    /\ LET f == onPrewriteSuccess(committer, resp)
       IN /\ committer' = f.c
          /\ handlers' = IF f.c.fatal THEN [handlers EXCEPT ![b].rpcErr = NoRPCError]
                         ELSE Ends(b, NoRPCError, f.err, IF f.err THEN "resp" ELSE "none")
    /\ UNCHANGED <<mvccVars, cacheVars, storeVars>>

\* The deferred function of the handler runs and the handler returns.
HandlerReturn(b) ==
    /\ Running
    /\ handlers[b].pc = "returning"
    /\ committer' = setUndeterminedErr(committer, handlers[b].rpcErr, handlers[b].err)
    /\ handlers' = [handlers EXCEPT ![b].pc = "done"]
    /\ UNCHANGED <<mvccVars, cacheVars, storeVars>>

\* A batch failed: the committer sets prewriteCancelled ...
SetPrewriteCancelled ==
    /\ Running
    /\ \E b \in Handlers : handlers[b].pc = "done" /\ handlers[b].err /\ handlers[b].parent = 0
    /\ ~committer.prewriteCancelled
    /\ committer' = [committer EXCEPT !.prewriteCancelled = TRUE]
    /\ UNCHANGED <<handlers, mvccVars, cacheVars, storeVars>>

\* ... and then cancels the context of the other batches.
CancelRequests ==
    /\ Running
    /\ committer.prewriteCancelled
    /\ ~committer.ctxCancelled
    /\ committer' = [committer EXCEPT !.ctxCancelled = TRUE]
    /\ UNCHANGED <<handlers, mvccVars, cacheVars, storeVars>>

NextPrewrite ==
    \/ \E async \in BOOLEAN, onePC \in BOOLEAN, n \in {1, 2} : ExecuteReq(async, onePC, n)
    \/ \E b \in {1, 2} : HandlerStart(b)
    \/ \E b \in Handlers, rpc \in BOOLEAN : SendReqFails(b, rpc)
    \/ \E b \in Handlers, rpc \in BOOLEAN, kind \in RegionErrorKinds, relocate \in Relocations :
          RegionError(b, rpc, kind, relocate)
    \/ \E b \in Handlers : NestedReturn(b)
    \/ \E b \in Handlers, rpc \in BOOLEAN, o \in KeyErrorOutcomes : KeyErrors(b, rpc, o)
    \/ \E b \in Handlers, o \in OnePcCommitTsValues, m \in MinCommitTsValues :
          PrewriteSucceeds(b, PrewriteResponse(o, m))
    \/ \E b \in Handlers : HandlerReturn(b)
    \/ SetPrewriteCancelled
    \/ CancelRequests

(***************************************************************************)
(* The resolve state of the Store objects of one store id.  An address     *)
(* stands for the address and the labels of the store; PD changes it or    *)
(* removes the store.  reResolve takes no lock: its call of PD and what it  *)
(* does with the answer are two steps.                                     *)
(***************************************************************************)
\* Largest number of Store objects made and largest address PD hands out.
MaxStoreObjs == 3

MaxAddr == 3

StoreObjs == 1..MaxStoreObjs

\* No call of PD in progress.
NoAnswer == [busy |-> FALSE, store |-> 0]

\* pdClient.GetStore answered with the address a (0: no such store).
Answer(a) == [busy |-> TRUE, store |-> a]

\* A Store object of a TiKV store: the unreachable flag, the number of
\* checkUntilHealth goroutines running for it, and in health the answer of
\* PD such a goroutine is working on.
Store(state, addr) ==
    [exists |-> TRUE, state |-> state, addr |-> addr, epoch |-> 0, unreachable |-> FALSE,
     loops |-> 0, health |-> NoAnswer]

NoStore == [Store("unresolved", 0) EXCEPT !.exists = FALSE]

\* setResolveState in the place of the compare-and-swap.
setResolveStateTo(state, from, to) == to

\* changeResolveStateTo: the state after it.
changeResolveStateTo(state, from, to) ==
    IF state = to THEN to ELSE IF state # from THEN state ELSE to

\* Store.initResolve with the answer a of PD: the Store object after it.
initResolve(s, a) ==
    IF s.state # "unresolved" THEN s
    ELSE IF a = 0 THEN [s EXCEPT !.state = "tombstone"]
    ELSE [s EXCEPT !.addr = a, !.state = changeResolveStateTo(s.state, "unresolved", "resolved")]

FreeObjs(S) == {n \in StoreObjs : ~S[n].exists}

\* Store.reResolve of object o after PD answered a: [stores, registry, valid].
reResolve(S, reg, o, a) ==
    IF a = 0
    THEN [stores |-> [S EXCEPT ![o].epoch = @ + 1, ![o].state = "tombstone"],
          registry |-> reg, valid |-> FALSE]
    ELSE IF S[o].addr # a
    THEN LET n == CHOOSE x \in FreeObjs(S) : \A y \in FreeObjs(S) : x <= y
         IN [stores |-> [S EXCEPT ![n] = Store("resolved", a), ![o].state = "deleted"],
             registry |-> n, valid |-> FALSE]
    ELSE [stores |-> [S EXCEPT ![o].state = changeResolveStateTo(@, "needCheck", "resolved")],
          registry |-> reg, valid |-> TRUE]

\* reResolve can make the Store object it needs.
CanReResolve(S, o, a) == (a # 0 /\ S[o].addr # a) => FreeObjs(S) # {}

\* A start of the health check that does not look at the flag.
startHealthCheckLoopAnyway(s) == [s EXCEPT !.unreachable = TRUE, !.loops = @ + 1]

\* Store.startHealthCheckLoopIfNeeded: the compare-and-swap of unreachable
\* from 0 to 1, and the goroutine started when it succeeds.
startHealthCheckLoopIfNeeded(s) ==
    IF ~s.unreachable THEN [s EXCEPT !.unreachable = TRUE, !.loops = @ + 1] ELSE s

\* checkUntilHealth returns: the deferred compare-and-swap of unreachable
\* from 1 to 0 runs and the goroutine is gone.
checkUntilHealthReturns(s) == [s EXCEPT !.unreachable = FALSE, !.loops = @ - 1]

\* Store.markNeedCheck: changeResolveStateTo(resolved, needCheck) succeeded,
\* so a notification is sent unless the channel of capacity 1 holds one.
markNeedCheckNotifies(state) == changeResolveStateTo(state, "resolved", "needCheck") = "needCheck"

\* Which stores a round of asyncCheckAndResolveLoop takes.
needCheckOf(kind, state) ==
    IF kind = "notify" THEN state = "needCheck"
    ELSE state \notin {"unresolved", "tombstone", "deleted"}

ResolveInit ==
    /\ stores = [o \in StoreObjs |-> IF o = 1 THEN Store("unresolved", 0) ELSE NoStore]
    /\ registry = 1
    /\ pdAddr = 1
    /\ loopJob = [pc |-> "idle", obj |-> 1, answer |-> NoAnswer, notify |-> FALSE, closed |-> FALSE]

\* PD: the store moves to another address or gets other labels.
PDStoreChanged ==
    /\ pdAddr # 0
    /\ pdAddr < MaxAddr
    /\ pdAddr' = pdAddr + 1
    /\ UNCHANGED <<stores, registry, loopJob, mvccVars, cacheVars, committer, handlers>>

\* PD: the store is removed.
PDStoreRemoved ==
    /\ pdAddr # 0
    /\ pdAddr' = 0
    /\ UNCHANGED <<stores, registry, loopJob, mvccVars, cacheVars, committer, handlers>>

\* The first resolution of a store a region refers to.
InitResolveReq(o) ==
    /\ stores[o].exists
    /\ stores[o].state = "unresolved"
    /\ stores' = [stores EXCEPT ![o] = initResolve(@, pdAddr)]
    /\ UNCHANGED <<registry, pdAddr, loopJob, mvccVars, cacheVars, committer, handlers>>

\* A request to the store failed: markNeedCheck, which sends on
\* notifyCheckCh without waiting.
MarkNeedCheck(o) ==
    /\ stores[o].exists
    /\ stores' = [stores EXCEPT ![o].state = changeResolveStateTo(@, "resolved", "needCheck")]
    /\ loopJob' = [loopJob EXCEPT !.notify = @ \/ markNeedCheckNotifies(stores[o].state)]
    /\ UNCHANGED <<registry, pdAddr, mvccVars, cacheVars, committer, handlers>>

\* A round of asyncCheckAndResolveLoop starts on a notification, which it
\* takes from the channel, or on the ticker: checkAndResolve takes the store
\* of the registry when it needs a check.
LoopSelect(kind) ==
    /\ loopJob.pc = "idle"
    /\ ~loopJob.closed
    /\ kind = "notify" => loopJob.notify
    /\ loopJob' = [loopJob EXCEPT
                      !.pc = IF needCheckOf(kind, stores[registry].state) THEN "selected" ELSE @,
                      !.obj = IF needCheckOf(kind, stores[registry].state) THEN registry ELSE @,
                      !.notify = IF kind = "notify" THEN FALSE ELSE @]
    /\ UNCHANGED <<stores, registry, pdAddr, mvccVars, cacheVars, committer, handlers>>

\* RegionCache.Close: closeCh is closed.
CloseCache ==
    /\ ~loopJob.closed
    /\ loopJob' = [loopJob EXCEPT !.closed = TRUE]
    /\ UNCHANGED <<stores, registry, pdAddr, mvccVars, cacheVars, committer, handlers>>

\* reResolve of the loop asks PD.
LoopGetStore ==
    /\ loopJob.pc = "selected"
    /\ loopJob' = [loopJob EXCEPT !.pc = "got", !.answer = Answer(pdAddr)]
    /\ UNCHANGED <<stores, registry, pdAddr, mvccVars, cacheVars, committer, handlers>>

\* reResolve of the loop acts on the answer.
LoopResolve ==
    /\ loopJob.pc = "got"
    /\ CanReResolve(stores, loopJob.obj, loopJob.answer.store)
    /\ LET r == reResolve(stores, registry, loopJob.obj, loopJob.answer.store)
       IN /\ stores' = r.stores
          /\ registry' = r.registry
    /\ loopJob' = [loopJob EXCEPT !.pc = "idle", !.answer = NoAnswer]
    /\ UNCHANGED <<pdAddr, mvccVars, cacheVars, committer, handlers>>

\* startHealthCheckLoopIfNeeded after requests to the store failed.
StartHealthCheck(o) ==
    /\ stores[o].exists
    /\ stores[o].state \in {"resolved", "needCheck"}
    /\ stores' = [stores EXCEPT ![o] = startHealthCheckLoopIfNeeded(@)]
    /\ UNCHANGED <<registry, pdAddr, loopJob, mvccVars, cacheVars, committer, handlers>>

\* checkUntilHealth: reResolve asks PD.
HealthGetStore(o) ==
    /\ stores[o].loops > 0
    /\ ~stores[o].health.busy
    /\ stores' = [stores EXCEPT ![o].health = Answer(pdAddr)]
    /\ UNCHANGED <<registry, pdAddr, loopJob, mvccVars, cacheVars, committer, handlers>>

\* checkUntilHealth: reResolve acts on the answer; the loop ends when the
\* store is not valid any more.
HealthResolve(o) ==
    /\ stores[o].loops > 0
    /\ stores[o].health.busy
    /\ CanReResolve(stores, o, stores[o].health.store)
    /\ LET r == reResolve(stores, registry, o, stores[o].health.store)
       IN /\ stores' = [r.stores EXCEPT
                           ![o] = IF r.valid THEN [@ EXCEPT !.health = NoAnswer]
                                  ELSE checkUntilHealthReturns([@ EXCEPT !.health = NoAnswer])]
          /\ registry' = r.registry
    /\ UNCHANGED <<pdAddr, loopJob, mvccVars, cacheVars, committer, handlers>>

\* checkUntilHealth: the store answers, the loop ends.
HealthReachable(o) ==
    /\ stores[o].loops > 0
    /\ ~stores[o].health.busy
    /\ stores[o].state = "resolved"
    /\ stores' = [stores EXCEPT ![o] = checkUntilHealthReturns(@)]
    /\ UNCHANGED <<registry, pdAddr, loopJob, mvccVars, cacheVars, committer, handlers>>

\* checkUntilHealth: closeCh is closed, the loop ends.
HealthClosed(o) ==
    /\ stores[o].loops > 0
    /\ ~stores[o].health.busy
    /\ loopJob.closed
    /\ stores' = [stores EXCEPT ![o] = checkUntilHealthReturns(@)]
    /\ UNCHANGED <<registry, pdAddr, loopJob, mvccVars, cacheVars, committer, handlers>>

NextResolve ==
    \/ PDStoreChanged
    \/ PDStoreRemoved
    \/ \E o \in StoreObjs : InitResolveReq(o)
    \/ \E o \in StoreObjs : MarkNeedCheck(o)
    \/ \E kind \in {"notify", "ticker"} : LoopSelect(kind)
    \/ LoopGetStore
    \/ LoopResolve
    \/ \E o \in StoreObjs : StartHealthCheck(o)
    \/ \E o \in StoreObjs : HealthGetStore(o)
    \/ \E o \in StoreObjs : HealthResolve(o)
    \/ \E o \in StoreObjs : HealthReachable(o)
    \/ \E o \in StoreObjs : HealthClosed(o)
    \/ CloseCache

\* The steps of the committers of the transactions in T.
CommitterNext(T) ==
    \/ \E t \in T : Begin(t)
    \/ \E t \in T : LockKeys(t)
    \/ \E t \in T : PrewriteReq(t)
    \/ \E t \in T : GetCommitTS(t)
    \/ \E t \in T : CommitPrimary(t)
    \/ \E t \in T : CommitSecondary(t)

\* Transactions 1 and 2 with rollbacks and lock resolution by other clients.
Next ==
    \/ CommitterNext({1, 2})
    \/ \E t \in {1, 2} : RollbackReq(t)
    \/ Tick
    \/ CheckTxnStatusReq
    \/ ResolveLockReq

Init == MVCCInit /\ CacheInit /\ PrewriteInit /\ ResolveInit

Spec == Init /\ [][Next]_vars

\* The three committers running to completion, no rollback and no resolver.
NextPair == CommitterNext(Txns)

SpecPair == Init /\ [][NextPair]_vars

\* The three committers with rollbacks and replayed requests.
NextReplay ==
    \/ CommitterNext(Txns)
    \/ \E t \in Txns : RollbackReq(t)
    \/ \E t \in Txns : LatePrewrite(t)

SpecReplay == Init /\ [][NextReplay]_vars

VerIDs == {[id |-> i, confVer |-> 1, ver |-> v] : i \in 1..MaxRegionID, v \in 1..MaxVer}

\* The region cache under splits and merges, reloads, invalidations, failed
\* sends, EpochNotMatch answers and the TTL.
NextCache ==
    \/ \E m \in pdRegions, k \in SplitKeys, newLeft \in BOOLEAN : PDSplit(m, k, newLeft)
    \/ \E a \in pdRegions, b \in pdRegions, keepLeft \in BOOLEAN : PDMerge(a, b, keepLeft)
    \/ \E d \in {regionCacheTTLSec, regionCacheTTLSec + 1} : CacheTick(d)
    \/ \E key \in LookupKeys, pdOK \in BOOLEAN : LocateKey(key, pdOK)
    \/ \E id \in 1..MaxRegionID, pdOK \in BOOLEAN : LocateRegionByIDReq(id, pdOK)
    \/ \E id \in DOMAIN regions, reason \in {"NoLeader", "Other"} : InvalidateCachedRegion(id, reason)
    \/ \E ctx \in TiKVContexts : OnSendFailReq(ctx, TRUE, FALSE)
    \/ \E ctx \in TiKVContexts, listed \in BOOLEAN : OnRegionEpochNotMatchReq(ctx, listed)

SpecCache == Init /\ [][NextCache]_vars

\* One region under lookups of RPC contexts racing with failed sends.
NextStores ==
    \/ \E key \in LookupKeys, pdOK \in BOOLEAN : LocateKey(key, pdOK)
    \/ \E ctx \in Contexts, reload \in BOOLEAN : OnSendFailReq(ctx, reload, TRUE)
    \/ \E id \in VerIDs, replicaRead \in {"Leader", "Follower", "Mixed"}, seed \in {0, 1} :
          TiKVLookup(id, replicaRead, seed)
    \/ TiKVBuild
    \/ \E id \in VerIDs, loadBalance \in BOOLEAN : TiFlashLookup(id, loadBalance)
    \/ TiFlashRound

SpecStores == Init /\ [][NextStores]_vars

\* The prewrite batches of one transaction.
SpecPrewrite == Init /\ [][NextPrewrite]_vars

\* The goroutines that resolve the address of a store.
SpecResolve == Init /\ [][NextResolve]_vars

\* The goroutines that resolve the address of a store while the cache is
\* open: the ticker of asyncCheckAndResolveLoop keeps firing and PD answers.
NextLoop ==
    \/ PDStoreChanged
    \/ PDStoreRemoved
    \/ \E o \in StoreObjs : InitResolveReq(o)
    \/ \E o \in StoreObjs : MarkNeedCheck(o)
    \/ \E kind \in {"notify", "ticker"} : LoopSelect(kind)
    \/ LoopGetStore
    \/ LoopResolve
    \/ \E o \in StoreObjs : StartHealthCheck(o)
    \/ \E o \in StoreObjs : HealthGetStore(o)
    \/ \E o \in StoreObjs : HealthResolve(o)
    \/ \E o \in StoreObjs : HealthReachable(o)

SpecLoop ==
    /\ Init
    /\ [][NextLoop]_vars
    /\ WF_vars(LoopSelect("ticker"))
    /\ WF_vars(LoopGetStore)
    /\ WF_vars(LoopResolve)

\* The wall clock is set, forwards or backwards.
ClockSet(n) ==
    /\ n # now
    /\ now' = n
    /\ UNCHANGED <<db, tsMu, detector, txn, resolved, cacheVars, extVars>>

\* A call of GetTS through the PD client of c; the timestamp is kept as
\* the start ts of c.
GetTSReq(c) ==
    /\ TakeTS
    /\ txn' = [txn EXCEPT ![c].startTS = TSOf(tsMu')]
    /\ UNCHANGED <<db, now, detector, resolved, cacheVars, extVars>>

\* The PD clients of one process calling GetTS while the clock is set.
NextOracle ==
    \/ \E n \in 1..MaxNow : ClockSet(n)
    \/ \E c \in Txns : GetTSReq(c)

SpecOracle == Init /\ [][NextOracle]_vars


\* The safe points a garbage collection is run with: the commit timestamps
\* handed out so far.
SafePoints == {txn[t].commitTS : t \in Txns}

\* The key ranges GC is called on: the whole store and the last region.
GCRanges == {<<0, 0>>, <<2, 0>>}

\* A GC request for the range rg at safePoint.
GCReq(rg, safePoint) ==
    /\ safePoint > 0
    /\ db' = GC(db, rg[1], rg[2], safePoint).db
    /\ UNCHANGED <<tsMu, now, detector, txn, resolved, cacheVars, extVars>>

\* The three committers with rollbacks and garbage collection.
NextGC ==
    \/ CommitterNext(Txns)
    \/ \E t \in Txns : RollbackReq(t)
    \/ \E rg \in GCRanges : \E safePoint \in SafePoints : GCReq(rg, safePoint)

SpecGC == Init /\ [][NextGC]_vars


\* The keys on which the transaction with start ts holds the lock.
HeldKeys(d, startTS) == {k \in Keys : HasLock(d, k) /\ LockOf(d, k).startTS = startTS}

\* The for_update_ts of a lock request of t: that of its last request (its
\* start_ts at first) or a fresh timestamp.
ForUpdateTS(t, fresh) ==
    IF fresh THEN TSOf(GetTS(tsMu, now))
    ELSE IF txn[t].forUpdateTS = 0 THEN txn[t].startTS ELSE txn[t].forUpdateTS

\* The context of a request of t for the pessimistic lock of k.
LockCtx(t, k, fresh) ==
    [startTS |-> txn[t].startTS, forUpdateTS |-> ForUpdateTS(t, fresh), primary |-> k,
     ttl |-> 1, minCommitTs |-> ForUpdateTS(t, fresh) + 1, noWait |-> FALSE]

\* Transaction t asks for the pessimistic lock of key k, with a fresh
\* for_update_ts only after a request of it failed; on Deadlock it is the
\* victim and can only roll back.
LockKeyReq(t, k, fresh) ==
    /\ txn[t].state = "open"
    /\ fresh => PessimisticLock(db, detector, <<Mutation("PessimisticLock", k, NilValue, "None")>>,
                                 LockCtx(t, k, FALSE)).errs[1].kind = "WriteConflict"
    /\ IF fresh THEN TakeTS ELSE tsMu' = tsMu
    /\ LET r == PessimisticLock(db, detector, <<Mutation("PessimisticLock", k, NilValue, "None")>>,
                                LockCtx(t, k, fresh))
       IN /\ db' = r.db
          /\ detector' = r.edges
          /\ txn' = [txn EXCEPT ![t].state = IF r.errs[1].kind = "Deadlock" THEN "deadlocked" ELSE @,
                                ![t].forUpdateTS = ForUpdateTS(t, fresh),
                                ![t].observed = @ \/ Observed(r.errs)]
    /\ UNCHANGED <<now, resolved, cacheVars, extVars>>

\* Transaction t rolls back every key.
RollbackLocker(t) ==
    /\ txn[t].state \in {"open", "deadlocked"}
    /\ db' = Rollback(db, AscSeq(Keys), txn[t].startTS).db
    /\ txn' = [txn EXCEPT ![t].state = "aborted"]
    /\ detector' = DetectorCleanUp(detector, txn[t].startTS)
    /\ UNCHANGED <<tsMu, now, resolved, cacheVars, extVars>>

\* Transaction t holds every key and commits.
CommitLocker(t) ==
    /\ txn[t].state = "open"
    /\ HeldKeys(db, txn[t].startTS) = Keys
    /\ TakeTS
    /\ db' = Commit(db, AscSeq(HeldKeys(db, txn[t].startTS)), txn[t].startTS, TSOf(tsMu')).db
    /\ txn' = [txn EXCEPT ![t].state = "committed", ![t].commitTS = TSOf(tsMu')]
    /\ detector' = DetectorCleanUp(detector, txn[t].startTS)
    /\ UNCHANGED <<now, resolved, cacheVars, extVars>>

\* Pessimistic transactions locking key by key.
NextLockers ==
    \/ \E t \in Txns : Begin(t)
    \/ \E t \in Txns : \E k \in Keys : \E fresh \in BOOLEAN : LockKeyReq(t, k, fresh)
    \/ \E t \in Txns : RollbackLocker(t)
    \/ \E t \in Txns : CommitLocker(t)

SpecLockers == Init /\ [][NextLockers]_vars


\* A PessimisticLock request of a transaction that gave up arrives after
\* the rollback, with the for_update_ts it had or with the timestamp the
\* oracle is at.
LateLock(t, fresh) ==
    /\ isPessimistic(t)
    /\ txn[t].state = "aborted"
    /\ LET muts == [i \in 1..Len(txnMutations(t)) |->
                       Mutation("PessimisticLock", txnMutations(t)[i].key, NilValue, "None")]
           r == PessimisticLock(db, detector, muts, LockCtx(t, primary(t), fresh))
       IN /\ db' = r.db
          /\ detector' = r.edges
          /\ txn' = [txn EXCEPT ![t].forUpdateTS = ForUpdateTS(t, fresh)]
    /\ UNCHANGED <<tsMu, now, resolved, cacheVars, extVars>>

\* A Commit request for a key of a transaction that gave up arrives after
\* the rollback, its commit_ts the timestamp the oracle is at.
LateCommit(t, k) ==
    /\ txn[t].state = "aborted"
    /\ db' = Commit(db, <<k>>, txn[t].startTS, TSOf(GetTS(tsMu, now))).db
    /\ txn' = [txn EXCEPT ![t].commitTS = TSOf(GetTS(tsMu, now))]
    /\ detector' = DetectorCleanUp(detector, txn[t].startTS)
    /\ UNCHANGED <<tsMu, now, resolved, cacheVars, extVars>>

\* Time passes until the locks written so far have expired.
Elapse ==
    /\ now < MaxNow
    /\ now' = MaxNow
    /\ UNCHANGED <<db, tsMu, detector, txn, resolved, cacheVars, extVars>>

\* Transactions 1 and 2 with rollbacks, lock resolution by other clients
\* and requests that arrive after the rollback.
NextRollback ==
    \/ CommitterNext({1, 2})
    \/ \E t \in {1, 2} : RollbackReq(t)
    \/ \E t \in {1, 2} : LatePrewrite(t)
    \/ \E t \in {1, 2} : \E fresh \in BOOLEAN : LateLock(t, fresh)
    \/ \E t \in {1, 2} : \E k \in KeySet(txnMutations(t)) : LateCommit(t, k)
    \/ Elapse
    \/ CheckTxnStatusReq

SpecRollback == Init /\ [][NextRollback]_vars


\* The requests a store receives from any client, late or repeated ones
\* included.  Transaction 1 (start_ts 1) writes keys 1 and 2, transaction 3
\* (start_ts 3) writes key 1; key 1 is the primary of both.
ReqStartTS == {1, 3}

ReqKeysOf(startTS) == IF startTS = 1 THEN {1, 2} ELSE {1}

ReqCommitTS(startTS) == IF startTS = 1 THEN {2, 6} ELSE {4}

\* for_update_ts of a lock request: the start_ts or a later timestamp.
ReqForUpdateTS(startTS) == {startTS, 5}

\* lock_ttl of a Prewrite; a PessimisticLock asks for 2.
ReqTTL == {1, 3}

ReqAdviseTTL == {1, 3}

\* caller_start_ts of CheckTxnStatus: a reader's start_ts or MaxUint64.
ReqCallerTS == {4, lockVer}

\* current_ts of CheckTxnStatus: a timestamp of the first millisecond, or one
\* late enough for every lock to have expired.
ReqCurrentTS == {2, 6, ComposeTS(4, 0)}

\* A PrewriteRequest with one Put.
PrewriteRequest(k, startTS, pess, forUpdateTS, ttl, minCommitTS) ==
    [startTS |-> startTS, primary |-> 1, forUpdateTS |-> forUpdateTS, ttl |-> ttl,
     txnSize |-> 1, minCommitTS |-> minCommitTS, assertionLevel |-> "Off",
     mutations |-> <<Mutation("Put", k, 10 + startTS, "None")>>,
     isPessimisticLock |-> <<pess>>, resolvedLocks |-> {}]

\* The lockCtx and mutation of a PessimisticLockRequest for one key.
LockRequestCtx(startTS, forUpdateTS, ttl) ==
    [startTS |-> startTS, forUpdateTS |-> forUpdateTS, primary |-> 1, ttl |-> ttl,
     minCommitTs |-> forUpdateTS + 1, noWait |-> FALSE]

LockMutation(k) == <<Mutation("PessimisticLock", k, NilValue, "None")>>

PrewriteCall(k, startTS, pess, forUpdateTS, ttl, minCommitTS) ==
    /\ db' = Prewrite(db, PrewriteRequest(k, startTS, pess, forUpdateTS, ttl, minCommitTS)).db
    /\ UNCHANGED <<tsMu, now, detector, txn, resolved, cacheVars, extVars>>

PessimisticLockCall(k, startTS, forUpdateTS, ttl) ==
    /\ db' = PessimisticLock(db, detector, LockMutation(k),
                             LockRequestCtx(startTS, forUpdateTS, ttl)).db
    /\ detector' = PessimisticLock(db, detector, LockMutation(k),
                                   LockRequestCtx(startTS, forUpdateTS, ttl)).edges
    /\ UNCHANGED <<tsMu, now, txn, resolved, cacheVars, extVars>>

CommitCall(keys, startTS, commitTS) ==
    /\ db' = Commit(db, keys, startTS, commitTS).db
    /\ detector' = DetectorCleanUp(detector, startTS)
    /\ UNCHANGED <<tsMu, now, txn, resolved, cacheVars, extVars>>

RollbackCall(keys, startTS) ==
    /\ db' = Rollback(db, keys, startTS).db
    /\ detector' = DetectorCleanUp(detector, startTS)
    /\ UNCHANGED <<tsMu, now, txn, resolved, cacheVars, extVars>>

CheckTxnStatusCall(k, lockTS, callerStartTS, currentTS, rollbackIfNotExist, resolvingPessimisticLock) ==
    /\ db' = CheckTxnStatus(db, k, lockTS, callerStartTS, currentTS, rollbackIfNotExist,
                            resolvingPessimisticLock).db
    /\ UNCHANGED <<tsMu, now, detector, txn, resolved, cacheVars, extVars>>

TxnHeartBeatCall(k, startTS, adviseTTL) ==
    /\ db' = TxnHeartBeat(db, k, startTS, adviseTTL).db
    /\ UNCHANGED <<tsMu, now, detector, txn, resolved, cacheVars, extVars>>

ResolveLockCall(startTS, commitTS) ==
    /\ db' = ResolveLock(db, 0, 0, startTS, commitTS)
    /\ UNCHANGED <<tsMu, now, detector, txn, resolved, cacheVars, extVars>>

\* The key sequences of a Commit or Rollback request.
ReqKeySeqs(startTS) == IF startTS = 1 THEN {<<1>>, <<2>>, <<1, 2>>} ELSE {<<1>>}

NextRequests ==
    \/ \E s \in ReqStartTS, pess \in BOOLEAN, ttl \in ReqTTL :
          \E k \in ReqKeysOf(s), m \in {0, s + 1} :
             PrewriteCall(k, s, pess, IF pess THEN 5 ELSE 0, ttl, m)
    \/ \E s \in ReqStartTS :
          \E k \in ReqKeysOf(s), f \in ReqForUpdateTS(s) : PessimisticLockCall(k, s, f, 2)
    \/ \E s \in ReqStartTS :
          \E keys \in ReqKeySeqs(s), c \in ReqCommitTS(s) : CommitCall(keys, s, c)
    \/ \E s \in ReqStartTS : \E keys \in ReqKeySeqs(s) : RollbackCall(keys, s)
    \/ \E s \in ReqStartTS, caller \in ReqCallerTS, cur \in ReqCurrentTS :
          \E rb \in BOOLEAN, rp \in BOOLEAN : CheckTxnStatusCall(1, s, caller, cur, rb, rp)
    \/ \E k \in Keys, s \in ReqStartTS, a \in ReqAdviseTTL : TxnHeartBeatCall(k, s, a)
    \/ \E s \in ReqStartTS : \E c \in {0} \cup ReqCommitTS(s) : ResolveLockCall(s, c)

SpecRequests == Init /\ [][NextRequests]_vars

(***************************************************************************)
(* Calls on one Region object that interleave.  The variable lookup holds  *)
(* the calls in progress: OnSendFail calls that carry one RPC context, or  *)
(* one getRegionByIDFromCache.  A pointer to a regionStore is the count of *)
(* the compareAndSwapStore calls that succeeded on the Region.             *)
(***************************************************************************)
\* The goroutines that call OnSendFail.
RaceCallers == {1, 2}

\* The OnSendFail calls made with one context.
MaxCalls == 3

IdleCall == [pc |-> "idle"]

\* No call is in progress.
RaceIdle(lk) ==
    \/ lk.mode = "none"
    \/ lk.mode = "sendFail" /\ \A g \in RaceCallers : lk.calls[g].pc = "idle"

\* The OnSendFail calls with the context of lk that are made.
CallsMade(lk) == lk.done + Cardinality({g \in RaceCallers : lk.calls[g].pc # "idle"})

\* OnSendFail up to r.getStore().  The first call is made with a context as
\* GetTiKVRPCContext hands it out, the store's epoch being the snapshotted
\* one; the later calls find the Region object the first one found.
SendFailBegin(g, ctx, reload) ==
    /\ ctx.Region \in DOMAIN regions
    /\ LET o == regions[ctx.Region]
           r == heap[o]
           storeIdx == accessStore(r.store, ctx.AccessMode, ctx.AccessIdx)
           call == [pc |-> "mark", rs |-> r.store, reload |-> reload]
       IN /\ Len(ctx.Meta.peers) = Len(r.meta.peers)
          /\ IF lookup.mode = "none"
             THEN /\ storeEpoch[ctx.Store] = r.store.storeEpochs[storeIdx + 1]
                  /\ storeEpoch[ctx.Store] < MaxEpoch
                  /\ lookup' = [mode |-> "sendFail", region |-> o, ctx |-> ctx,
                                workTiKVIdx |-> r.store.workTiKVIdx,
                                epoch |-> storeEpoch[ctx.Store], ptr |-> 0,
                                calls |-> [x \in RaceCallers |->
                                              IF x = g THEN [call EXCEPT !.rs = [ptr |-> 0, store |-> r.store]]
                                              ELSE IdleCall],
                                done |-> 0, lost |-> FALSE]
             ELSE /\ lookup.mode = "sendFail"
                  /\ lookup.ctx = ctx
                  /\ lookup.region = o
                  /\ lookup.calls[g].pc = "idle"
                  /\ CallsMade(lookup) < MaxCalls
                  /\ lookup' = [lookup EXCEPT !.calls[g] =
                                   [call EXCEPT !.rs = [ptr |-> lookup.ptr, store |-> r.store]]]
    /\ loc' = NoLoc
    /\ UNCHANGED <<heap, sorted, regions, latestVersions, storeEpoch, pdRegions, pdAlloc, unixNow,
                   rpcCtx, mvccVars, extVars>>

\* OnSendFail: markRegionNeedBeRefill on the store of the context.
SendFailMark(g) ==
    /\ lookup.mode = "sendFail"
    /\ lookup.calls[g].pc = "mark"
    /\ LET rs == lookup.calls[g].rs.store
           storeIdx == accessStore(rs, lookup.ctx.AccessMode, lookup.ctx.AccessIdx)
       IN storeEpoch' = markRegionNeedBeRefill(storeEpoch, rs.stores[storeIdx + 1], storeIdx, rs)
    /\ lookup' = [lookup EXCEPT !.calls[g].pc = "switch"]
    /\ loc' = NoLoc
    /\ UNCHANGED <<heap, sorted, regions, latestVersions, pdRegions, pdAlloc, unixNow, rpcCtx,
                   mvccVars, extVars>>

\* OnSendFail: switchNextTiKVPeer on the regionStore the call loaded, its
\* compareAndSwapStore against the pointer the Region holds now, and
\* scheduleReload.
SendFailSwitch(g) ==
    /\ lookup.mode = "sendFail"
    /\ lookup.calls[g].pc = "switch"
    /\ LET o == lookup.region
           call == lookup.calls[g]
           tries == call.rs.store.workTiKVIdx = lookup.ctx.AccessIdx
           swapped == tries /\ call.rs.ptr = lookup.ptr
           next == switchNextTiKVPeer([heap[o] EXCEPT !.store = call.rs.store], lookup.ctx.AccessIdx)
           r1 == IF swapped THEN [heap[o] EXCEPT !.store = next.store] ELSE heap[o]
           r2 == IF call.reload THEN scheduleReload(r1) ELSE r1
       IN SetCache([Cache EXCEPT !.heap[o] = r2],
                   [lookup EXCEPT !.calls[g] = IdleCall, !.done = @ + 1,
                                  !.ptr = IF swapped THEN @ + 1 ELSE @,
                                  !.lost = @ \/ (tries /\ ~swapped)])
    /\ loc' = NoLoc
    /\ UNCHANGED <<storeEpoch, pdRegions, pdAlloc, unixNow, rpcCtx, mvccVars, extVars>>

\* LocateRegionByID once getRegionByIDFromCache has returned r.
LocateRegionByIDFound(c0, r, regionID, ts, pd, epoch, pdOK) ==
    LET loaded == pdOK /\ HasRegionByID(pd, regionID)
        lr == loadRegionByID(pd, regionID, epoch, ts)
        c1 == [c0 EXCEPT !.heap[r].syncFlag = "updated"]
    IN IF checkNeedReload(c0.heap[r])
       THEN (IF loaded THEN [r |-> Alloc(c1), c |-> insertRegionToCache(c1, lr)]
             ELSE [r |-> r, c |-> c1])
       ELSE [r |-> r, c |-> c0]

\* LocateRegionByID up to the test of the TTL in getRegionByIDFromCache:
\* lastAccess is loaded and compared.  Without a live region the call goes
\* on to PD and ends.
ByIDLoad(regionID, pdOK) ==
    /\ RaceIdle(lookup)
    /\ LET g == getRegionByIDFromCache(Cache, regionID, unixNow)
           f == LocateRegionByID(Cache, regionID, unixNow, pdRegions, storeEpoch, pdOK)
       IN IF g.r = NoRegion
          THEN SetCache(f.c, NoLookup)
          ELSE SetCache(Cache, [mode |-> "byID", region |-> g.r, id |-> regionID, ts |-> unixNow])
    /\ loc' = NoLoc
    /\ UNCHANGED <<storeEpoch, pdRegions, pdAlloc, unixNow, rpcCtx, mvccVars, extVars>>

\* The rest of LocateRegionByID: getRegionByIDFromCache loads lastAccess a
\* second time and swaps ts for what it has just loaded, then the region is
\* reloaded if it is due.
ByIDRefresh(pdOK) ==
    /\ lookup.mode = "byID"
    /\ SetCache(LocateRegionByIDFound([Cache EXCEPT !.heap[lookup.region].lastAccess = lookup.ts],
                                      lookup.region, lookup.id, unixNow, pdRegions, storeEpoch,
                                      pdOK).c,
                NoLookup)
    /\ loc' = NoLoc
    /\ UNCHANGED <<storeEpoch, pdRegions, pdAlloc, unixNow, rpcCtx, mvccVars, extVars>>

\* One region under lookups by key and by id, invalidations, the clock, and
\* failed sends reported by two goroutines.  c.mu is read-locked during
\* getRegionByIDFromCache, which keeps LocateKey's insertion out.
NextRaces ==
    \/ \E pdOK \in BOOLEAN : lookup.mode # "byID" /\ LocateKey(EmptyKey, pdOK)
    \/ CacheTick(regionCacheTTLSec)
    \/ \E id \in DOMAIN regions : InvalidateCachedRegion(id, "NoLeader")
    \/ \E id \in 1..MaxRegionID, pdOK \in BOOLEAN : ByIDLoad(id, pdOK)
    \/ \E pdOK \in BOOLEAN : ByIDRefresh(pdOK)
    \/ \E g \in RaceCallers, ctx \in TiKVContexts, reload \in BOOLEAN : SendFailBegin(g, ctx, reload)
    \/ \E g \in RaceCallers : SendFailMark(g)
    \/ \E g \in RaceCallers : SendFailSwitch(g)

SpecRaces == Init /\ [][NextRaces]_vars

\* The region cache under splits and merges, lookups by key and
\* EpochNotMatch answers.
NextEpoch ==
    \/ \E m \in pdRegions, k \in SplitKeys, newLeft \in BOOLEAN : PDSplit(m, k, newLeft)
    \/ \E a \in pdRegions, b \in pdRegions, keepLeft \in BOOLEAN : PDMerge(a, b, keepLeft)
    \/ \E key \in LookupKeys, pdOK \in BOOLEAN : LocateKey(key, pdOK)
    \/ \E ctx \in TiKVContexts, listed \in BOOLEAN : OnRegionEpochNotMatchReq(ctx, listed)

SpecEpoch == Init /\ [][NextEpoch]_vars


(***************************************************************************)
(* PART 5 -- properties of the MVCC engine.                                *)
(***************************************************************************)
\* The read timestamps that tell the versions of a store apart: every
\* version in it, and the timestamps around c.
ReadPoints(d, c) == {ek[2] : ek \in {x \in DOMAIN d : x[2] # lockVer}} \cup {c - 1, c, c + 1}

\* Get under snapshot isolation, no resolved locks.
Get(d, key, ts) == getValue(d, key, ts, "SI", {})

\* What a committed prewrite lock makes visible.
LockValue(lock) == IF lock.op = "Put" THEN lock.value ELSE NilValue

\* t holds a lock written by Prewrite on k.
HoldsPrewriteLock(t, k) ==
    /\ txn[t].startTS > 0
    /\ HasLock(db, k)
    /\ LockOf(db, k).startTS = txn[t].startTS
    /\ LockOf(db, k).op # "PessimisticLock"

\* C1: when Commit(K, S, C) succeeds on a lock installed by Prewrite, then
\* right after it a snapshot read of K at any ts >= C returns the value S
\* wrote (not found for a delete), and a read at ts < C returns what was
\* visible at ts before the commit.
C1_CommitStep ==
    \A t \in Txns, k \in Keys :
        (CommitKeyReq(t, k) /\ HoldsPrewriteLock(t, k)
            /\ ~IsErr(Commit(db, <<k>>, txn[t].startTS, txn[t].commitTS).err))
        => \A ts \in ReadPoints(db', txn[t].commitTS) :
              IF ts >= txn[t].commitTS
              THEN Get(db', k, ts) = [err |-> NoErr, value |-> LockValue(LockOf(db, k))]
              ELSE Get(db', k, ts) = getValue(db, k, ts, "RC", {})

C1_CommitVisible == [][C1_CommitStep]_vars

\* Transaction 1 committed key 1 over the value inserted by transaction 3.
C1_Witness ==
    /\ 1 \in txn[1].committed
    /\ 1 \in txn[3].committed
    /\ txn[3].commitTS < txn[1].startTS
    /\ Get(db, 1, txn[1].commitTS).value = 11
    /\ Get(db, 1, txn[1].commitTS - 1).value = 13

\* The write record of the transaction with start ts on key, if any.
Committed(d, key, startTS) ==
    /\ getTxnCommitInfo(d, key, startTS).ok
    /\ getTxnCommitInfo(d, key, startTS).value.valueType # "Rollback"

RolledBack(d, key, startTS) ==
    /\ getTxnCommitInfo(d, key, startTS).ok
    /\ getTxnCommitInfo(d, key, startTS).value.valueType = "Rollback"

Secondaries(t) == KeySet(txnMutations(t)) \ {primary(t)}

\* C2: for a transaction with primary P and secondary K, whatever the
\* interleaving of its Prewrite, Commit and Rollback with CheckTxnStatus on P
\* and ResolveLock on K by other clients: K is committed only if P is
\* committed with the same commit ts, and K is not rolled back when P has a
\* committed write record.
C2_SecondaryFollowsPrimary ==
    \A t \in Txns, k \in Keys :
        (txn[t].startTS > 0 /\ k \in Secondaries(t)) =>
            /\ Committed(db, k, txn[t].startTS) =>
                  /\ Committed(db, primary(t), txn[t].startTS)
                  /\ getTxnCommitInfo(db, primary(t), txn[t].startTS).value.commitTS
                        = getTxnCommitInfo(db, k, txn[t].startTS).value.commitTS
            /\ Committed(db, primary(t), txn[t].startTS) => ~RolledBack(db, k, txn[t].startTS)

\* A resolver committed the secondary of transaction 1 after its primary
\* was committed and before the committer did.
C2_Witness ==
    /\ txn[1].committed = {1}
    /\ Committed(db, 2, txn[1].startTS)
    /\ <<txn[1].startTS, txn[1].commitTS>> \in resolved

Serial(a, b) ==
    /\ txn[a].state = "committed"
    /\ txn[b].startTS > 0
    /\ txn[a].commitTS < txn[b].startTS

SharedKeys(a, b) == KeySet(txnMutations(a)) \cap KeySet(txnMutations(b))

\* The kinds of the errors a Prewrite of batch by t would get for key k now.
PrewriteAnswer(t, batch, k) ==
    {Prewrite(db, buildPrewriteRequest(txn[t], t, batch)).errs[i].kind :
        i \in {j \in 1..Len(batch) : batch[j].key = k}}

OneLockPerKey ==
    \A k \in Keys : Cardinality({ek \in DOMAIN db : ek[1] = k /\ db[ek].kind = "lock"}) <= 1

PrimaryKept ==
    \A t \in Txns : \A batch \in Batches(t) :
        PrewriteBatch(t, batch) =>
            \A k \in KeySet(batch) :
                (HasLock(db, k) /\ LockOf(db, k).startTS = txn[t].startTS) =>
                    (HasLock(db', k) /\ LockOf(db', k).primary = LockOf(db, k).primary)

\* C4: a key holds at most one lock record, and a Prewrite of a key that
\* already holds the lock of the same transaction (a retry, or the promotion
\* of its pessimistic lock) leaves the primary of the lock as it was.
C4_OneLockSamePrimary == [](OneLockPerKey) /\ [][PrimaryKept]_vars

\* Transaction 2 prewrote key 2 over its own pessimistic lock.
C4_Witness ==
    /\ txn[2].locked
    /\ 2 \in txn[2].prewritten
    /\ HoldsPrewriteLock(2, 2)
    /\ LockOf(db, 2).primary = primary(2)

\* C5 as stated: a Prewrite whose batch was already prewritten, the locks
\* still in place, is answered without error and changes nothing.
C5_ReplayIdempotent ==
    \A t \in Txns : \A batch \in Batches(t) :
        (txn[t].state = "open" /\ \A k \in KeySet(batch) : k \in txn[t].prewritten /\ HoldsPrewriteLock(t, k))
        => /\ ~AnyError(Prewrite(db, buildPrewriteRequest(txn[t], t, batch)).errs)
           /\ Prewrite(db, buildPrewriteRequest(txn[t], t, batch)).db = db

\* C6: a Prewrite that answers any mutation with an error writes nothing:
\* the store is as before, the locks of other transactions included.
C6_Step ==
    \A t \in Txns : \A batch \in Batches(t) :
        (PrewriteBatch(t, batch) /\ AnyError(Prewrite(db, buildPrewriteRequest(txn[t], t, batch)).errs))
        => db' = db

C6_AllOrNothing == [][C6_Step]_vars

\* Transaction 1 was refused while key 1 was free: nothing of it is stored.
C6_Witness ==
    /\ txn[1].state = "open"
    /\ txn[1].observed
    /\ txn[1].prewritten = {}
    /\ txn[3].state = "idle"
    /\ ~HasLock(db, 1)
    /\ ValuesOf(db, 1) = <<>>
    /\ HasLock(db, 2)

(***************************************************************************)
(* PART 6 -- properties of the region cache.                               *)
(***************************************************************************)

\* C7: whatever happened to the cache before (insertions, invalidations,
\* EpochNotMatch answers, failed sends, scheduled reloads, expired TTLs),
\* the region LocateKey returns for a key k contains k: its start key is at
\* most k, and k is below its end key or the end key is empty.
C7_LocateKeyContains ==
    loc.found => /\ loc.StartKey <= loc.key
                 /\ loc.key < loc.EndKey \/ loc.EndKey = EmptyKey

\* Key 1 was located in the region starting at 1, loaded from PD after the
\* TTL ran out, while the item below it in the cache ends at key 1.
C7_Witness ==
    /\ loc.found /\ loc.key = 1 /\ loc.StartKey = 1
    /\ unixNow > StartUnix
    /\ EmptyKey \in DOMAIN sorted
    /\ heap[sorted[EmptyKey]].meta.endKey = 1

\* A step of a lookup in progress: it ends, or goes on to the next store.
LookupStep == lookup.mode # "none" /\ (lookup'.mode = "none" \/ lookup'.i # lookup.i)

\* The epoch the Region object r snapshotted for store s.
ViewEpoch(r, s) == r.store.storeEpochs[CHOOSE p \in 1..Len(r.store.stores) : r.store.stores[p] = s]

C8_Step ==
    LookupStep =>
        LET r == heap[lookup.region]
            s == r.store.stores[examinedStoreIdx(r.store, lookup) + 1]
        IN /\ rpcCtx' # NoCtx => storeEpoch[rpcCtx'.Store] = ViewEpoch(r, rpcCtx'.Store)
           /\ storeEpoch[s] > ViewEpoch(r, s) =>
                 /\ rpcCtx' # NoCtx => rpcCtx'.Store # s
                 /\ lookup.id \in DOMAIN regions /\ regions[lookup.id] = lookup.region
                       => heap'[regions'[lookup.id]].lastAccess = invalidatedLastAccessTime
                 /\ lookup'.mode # "none"
                       => heap'[lookup'.region].lastAccess = invalidatedLastAccessTime

\* C8: a lookup of an RPC context, on the TiKV and on the TiFlash path and
\* however failed sends bump store epochs meanwhile, never builds a context
\* for a store whose epoch is beyond the one the region snapshotted; when the
\* store it examines is such a store, it leaves the region invalidated.
C8_StaleEpochNeverUsed == [][C8_Step]_vars

\* A TiFlash lookup passed over a store whose epoch had moved, invalidated
\* the region and returned a context for the next store.
C8_Witness ==
    /\ rpcCtx.AccessMode = "tiFlashOnly"
    /\ rpcCtx.Region \in DOMAIN regions
    /\ LET r == heap[regions[rpcCtx.Region]]
       IN /\ r.lastAccess = invalidatedLastAccessTime
          /\ r.invalidReason = "Other"
          /\ storeEpoch[rpcCtx.Store] = ViewEpoch(r, rpcCtx.Store)
          /\ \E s \in TiFlashStores : storeEpoch[s] > ViewEpoch(r, s)

\* C9: every version latestVersions names for a region id is a key of the
\* regions map.
C9_LatestVersionsCached ==
    \A id \in DOMAIN latestVersions : latestVersions[id] \in DOMAIN regions

\* The items of sorted holding version v.
SortedEntries(v) == {k \in DOMAIN sorted : VerID(heap[sorted[k]].meta) = v}

\* C10: a version in the regions map whose Region is not invalidated has
\* exactly one item in sorted, and that item holds the same Region object.
C10_OneSortedEntry ==
    \A v \in DOMAIN regions :
        heap[regions[v]].lastAccess # invalidatedLastAccessTime =>
            /\ Cardinality(SortedEntries(v)) = 1
            /\ \A k \in SortedEntries(v) : sorted[k] = regions[v]

\* Two versions are cached and not invalidated, one of them loaded after a
\* split and a merge.
C10_Witness ==
    \E v \in DOMAIN regions, w \in DOMAIN regions :
        /\ v # w
        /\ v.ver > 2
        /\ heap[regions[v]].lastAccess # invalidatedLastAccessTime
        /\ heap[regions[w]].lastAccess # invalidatedLastAccessTime

\* The regions an EpochNotMatch error lists for a request sent with ctx.
Successors(ctx) == {CurrentRegions(ctx.Meta)[i] : i \in 1..Len(CurrentRegions(ctx.Meta))}

\* The keys of the range of a region.
RangeOf(m) == {k \in LookupKeys : contains(m.startKey, m.endKey, k)}

\* The cache after the step.
CacheNext == [heap |-> heap', sorted |-> sorted', regions |-> regions',
              latestVersions |-> latestVersions']

\* After the step the region m is the item of sorted at its start key and
\* the Region of its version in regions.
InstalledNext(m) ==
    /\ m.startKey \in DOMAIN sorted'
    /\ heap'[sorted'[m.startKey]].meta = m
    /\ VerID(m) \in DOMAIN regions'
    /\ regions'[VerID(m)] = sorted'[m.startKey]

C11_Step ==
    \A ctx \in TiKVContexts :
        OnRegionEpochNotMatchReq(ctx, TRUE) =>
            /\ \A m \in Successors(ctx) : InstalledNext(m)
            /\ RangeOf(ctx.Meta) \subseteq UNION {RangeOf(m) : m \in Successors(ctx)}

C11_ExactStep ==
    \A ctx \in TiKVContexts :
        OnRegionEpochNotMatchReq(ctx, TRUE) =>
            UNION {RangeOf(m) : m \in Successors(ctx)} = RangeOf(ctx.Meta)

OldRegionAfter(ctx) ==
    OnRegionEpochNotMatch(Cache, ctx, CurrentRegions(ctx.Meta), storeEpoch, unixNow)
        .c.heap[regions[ctx.Region]]

\* Every listed region is installed and is what the cache finds for the keys
\* of its range, and the region of the request is invalidated.
C12_InstalledStep ==
    \A ctx \in TiKVContexts :
        OnRegionEpochNotMatchReq(ctx, TRUE) =>
            /\ \A m \in Successors(ctx) :
                  /\ InstalledNext(m)
                  /\ \A k \in RangeOf(m) :
                        LET f == searchCachedRegion(CacheNext, k, unixNow)
                        IN f.r # NoRegion /\ f.heap[f.r].meta = m
            /\ OldRegionAfter(ctx).lastAccess = invalidatedLastAccessTime

C12_ReasonStep ==
    \A ctx \in TiKVContexts :
        OnRegionEpochNotMatchReq(ctx, TRUE) => OldRegionAfter(ctx).invalidReason = "EpochNotMatch"

\* C12: after OnRegionEpochNotMatch for a request to the cached region R with
\* listed successors, every successor is cached and found for the keys of
\* its range, R is invalidated, and the reason recorded on R is EpochNotMatch.
C12_EpochNotMatchRecorded == [][C12_InstalledStep /\ C12_ReasonStep]_vars

(***************************************************************************)
(* PART 7 -- properties of the prewrite of the two-phase committer.        *)
(***************************************************************************)
InCommitMode == committer.useAsyncCommit \/ committer.useOnePC

C13_Step ==
    /\ \A b \in Handlers :
          HandlerReturn(b) =>
              /\ (InCommitMode /\ handlers[b].err /\ handlers[b].rpcErr # NoRPCError
                      /\ ~committer.prewriteCancelled)
                    => /\ committer'.undeterminedErr = handlers[b].rpcErr
                       /\ committer'.undeterminedErr # NoRPCError
              /\ (~InCommitMode \/ ~handlers[b].err \/ handlers[b].rpcErr = NoRPCError)
                    => committer'.undeterminedErr = committer.undeterminedErr
    /\ (\A b \in Handlers : ~HandlerReturn(b))
          => committer'.undeterminedErr = committer.undeterminedErr

\* C13: when a handler of a prewrite batch returns an error while the
\* transaction is in async-commit or 1PC mode, its sender holds an RPC
\* error and prewriteCancelled is not set, the undetermined error is set;
\* it is left as it was when the transaction is in neither mode, when the
\* sender holds no RPC error (a region error or key error only), or when the
\* batch succeeded, and no other step of the prewrite sets it.
C13_UndeterminedOnRPCError == [][C13_Step]_vars

\* A batch of an async-commit transaction met a transport error, was then
\* answered with key errors and gave up: the undetermined error is set.
C13_Witness ==
    /\ committer.useAsyncCommit
    /\ ~committer.prewriteCancelled
    /\ committer.undeterminedErr = "transport"
    /\ \E b \in Handlers : /\ handlers[b].pc = "done"
                           /\ handlers[b].cause = "key"
                           /\ handlers[b].rpcErr = "transport"

C14_Step ==
    \A b \in Handlers :
        (HandlerReturn(b) /\ handlers[b].rpcErr = "cancel")
            => committer'.undeterminedErr = committer.undeterminedErr

\* C14: with prewriteCancelled set before the requests are cancelled, a
\* handler whose request was ended by the cancellation never records an
\* undetermined error, however the handlers interleave.
C14_CancelNotUndetermined == [][C14_Step]_vars /\ [](committer.undeterminedErr # "cancel")

\* The batches of an async-commit transaction were cancelled after one
\* failed on a key error: the cancelled one returned, nothing is undetermined.
C14_Witness ==
    /\ committer.useAsyncCommit
    /\ committer.ctxCancelled
    /\ committer.undeterminedErr = NoRPCError
    /\ \E b \in Handlers : /\ handlers[b].pc = "done"
                           /\ handlers[b].err
                           /\ handlers[b].rpcErr = "cancel"

\* What a response without key errors does to a committer with the 1PC flag.
C15_OnePCStep(fallMins) ==
    \A b \in Handlers, o \in OnePcCommitTsValues, m \in MinCommitTsValues :
        PrewriteSucceeds(b, PrewriteResponse(o, m)) =>
            /\ (committer.useOnePC /\ o = 0 /\ m \in fallMins) =>
                  /\ ~committer'.useOnePC
                  /\ ~committer'.useAsyncCommit
                  /\ committer'.onePCCommitTS = 0
                  /\ handlers'[b].pc = "returning" /\ ~handlers'[b].err
            /\ (committer.useOnePC /\ o # 0 /\ committer.onePCCommitTS = 0) =>
                  /\ committer'.onePCCommitTS = o
                  /\ committer'.useOnePC
            /\ (~committer.useOnePC /\ o # 0) => committer'.fatal

\* The 1PC commit ts is recorded at most once.
C15_RecordedOnce == committer.onePCCommitTS # 0 => committer'.onePCCommitTS = committer.onePCCommitTS

C15_ErrorStep ==
    \A b \in Handlers, m \in MinCommitTsValues \ {0} :
        (PrewriteSucceeds(b, PrewriteResponse(0, m)) /\ committer.useOnePC) =>
            /\ committer' = committer
            /\ handlers'[b].pc = "returning" /\ handlers'[b].err
            /\ handlers'[b].rpcErr = NoRPCError

\* C15 as amended: on a response without key errors while the 1PC flag is
\* set, one_pc_commit_ts = 0 with min_commit_ts = 0 clears the 1PC and the
\* async-commit flag, records no 1PC commit ts and the batch succeeds;
\* one_pc_commit_ts = 0 with min_commit_ts # 0 fails the batch and leaves the
\* flags set; one_pc_commit_ts # 0 is recorded, at most once; and
\* one_pc_commit_ts # 0 without the 1PC flag is fatal.
C15_OnePCFallback ==
    [][C15_OnePCStep({0}) /\ C15_RecordedOnce /\ C15_ErrorStep]_vars

\* The only batch of a 1PC transaction was answered with a commit ts: it is
\* recorded, the 1PC flag stays and the batch returned without error.
C15_Witness ==
    /\ committer.useOnePC
    /\ committer.onePCCommitTS = 9
    /\ ~committer.fatal
    /\ \E b \in Handlers : /\ handlers[b].pc = "done"
                           /\ ~handlers[b].err
                           /\ handlers[b].cause = "none"

\* C15 as stated: one_pc_commit_ts = 0 always demotes.
C15_AlwaysFallsBack == [][C15_OnePCStep(MinCommitTsValues) /\ C15_RecordedOnce]_vars

(***************************************************************************)
(* PART 8 -- garbage collection.                                           *)
(***************************************************************************)
\* The versions under which key has a record in d.
VersionsOf(d, key) == {ek[2] : ek \in {x \in DOMAIN d : x[1] = key /\ x[2] # lockVer}}

\* The versions of the Put and Delete records of key at or below safePoint.
DataVersions(d, key, safePoint) ==
    {v \in VersionsOf(d, key) : /\ d[mvccEncode(key, v)].commitTS <= safePoint
                                /\ d[mvccEncode(key, v)].valueType \in {"Put", "Delete"}}

\* No lock of the range is at or below safePoint.
LocksAbove(rg, safePoint) ==
    \A k \in KeysInRange(db, rg[1], rg[2]) : HasLock(db, k) => LockOf(db, k).startTS > safePoint

\* What GC leaves of key: the records above safePoint and, of the kinds
\* kept, the newest Put or Delete record at or below it.
Retained(key, safePoint, kept) ==
    LET data == DataVersions(db, key, safePoint)
    IN {v \in VersionsOf(db, key) : db[mvccEncode(key, v)].commitTS > safePoint}
       \cup (IF data # {} /\ db[mvccEncode(key, MaxOf(data))].valueType \in kept
             THEN {MaxOf(data)} ELSE {})

C16_Step(kept) ==
    \A rg \in GCRanges, safePoint \in SafePoints :
        (GCReq(rg, safePoint) /\ LocksAbove(rg, safePoint)) =>
            /\ ~IsErr(GC(db, rg[1], rg[2], safePoint).err)
            /\ \A k \in Keys :
                  /\ VersionsOf(db', k) = IF k \in KeysInRange(db, rg[1], rg[2])
                                          THEN Retained(k, safePoint, kept)
                                          ELSE VersionsOf(db, k)
                  /\ \A v \in VersionsOf(db', k) : db'[mvccEncode(k, v)] = db[mvccEncode(k, v)]
                  /\ HasLock(db', k) = HasLock(db, k)

\* C16 as amended: for a safe point below the start_ts of every lock of the
\* range, after GC every key of the range keeps exactly its records with
\* commit_ts above the safe point and, if its newest Put-or-Delete record at
\* or below the safe point is a Put, that record; a newest Delete is removed
\* with everything below it.  Keys outside the range and locks are untouched.
C16_GCRetains == [][C16_Step({"Put"})]_vars

\* GC removed an older Put and a Rollback record of key 1 and kept the
\* newest Put at the safe point.
C16_Witness ==
    /\ txn[3].state = "committed" /\ txn[1].state = "committed"
    /\ txn[3].commitTS < txn[1].commitTS
    /\ VersionsOf(db, 1) = {txn[1].commitTS}
    /\ db[mvccEncode(1, txn[1].commitTS)].valueType = "Put"
    /\ VersionsOf(db, 2) = {}

\* C16 as stated: the newest Put-or-Delete record at or below the safe point
\* is retained whatever its kind.
C16_GCRetainsLatest == [][C16_Step({"Put", "Delete"})]_vars

(***************************************************************************)
(* PART 9 -- deadlock detection.                                           *)
(***************************************************************************)
\* The waits of edges followed once more.
WaitsStep(edges, R) == R \cup {<<p[1][1], p[2][2]>> : p \in {q \in R \X edges : q[1][2] = q[2][1]}}

\* a waits for b, directly or through others (three transactions).
WaitsFor(edges, a, b) == <<a, b>> \in WaitsStep(edges, WaitsStep(edges, edges))

\* The answer of the engine to t asking for the pessimistic lock of k.
LockAnswer(t, k, fresh) ==
    pessimisticLockMutation(db, detector, Mutation("PessimisticLock", k, NilValue, "None"),
                            LockCtx(t, k, fresh)).err.kind

C17_LockStep ==
    \A t \in Txns, k \in Keys, fresh \in BOOLEAN :
        LockKeyReq(t, k, fresh) =>
            IF HasLock(db, k) /\ LockOf(db, k).startTS # txn[t].startTS
            THEN LET holder == LockOf(db, k).startTS
                 IN /\ LockAnswer(t, k, fresh) = "Deadlock"
                          <=> WaitsFor(detector, holder, txn[t].startTS)
                    /\ LockAnswer(t, k, fresh) # "Deadlock" =>
                          /\ LockAnswer(t, k, fresh) = "Locked"
                          /\ detector' = detector \cup {<<txn[t].startTS, holder>>}
                          /\ txn'[t].state = "open"
                    /\ LockAnswer(t, k, fresh) = "Deadlock" =>
                          /\ detector' = detector
                          /\ txn'[t].state = "deadlocked"
                    /\ db' = db
            ELSE /\ LockAnswer(t, k, fresh) \notin {"Deadlock", "Locked"}
                 /\ detector' = detector
                 /\ (\A v \in VersionsOf(db, k) : v <= ForUpdateTS(t, fresh))
                       => k \in HeldKeys(db', txn[t].startTS)

C17_EndStep ==
    \A t \in Txns :
        (RollbackLocker(t) \/ CommitLocker(t)) =>
            /\ \A e \in detector' : e[1] # txn[t].startTS
            /\ HeldKeys(db', txn[t].startTS) = {}

Transitions ==
    {<<stores[o].state, stores'[o].state>> :
        o \in {x \in StoreObjs : stores[x].exists /\ stores'[x].state # stores[x].state}}

\* The state machine as described.
DescribedTransitions ==
    {<<"unresolved", "resolved">>, <<"resolved", "needCheck">>, <<"needCheck", "resolved">>,
     <<"needCheck", "deleted">>, <<"needCheck", "tombstone">>}

\* C18 as stated: the resolve state of a Store object changes only along
\* Unresolved -> Resolved, Resolved -> NeedCheck and
\* NeedCheck -> Resolved | Deleted | Tombstone.
C18_DescribedOnly == [][Transitions \subseteq DescribedTransitions]_vars

\* What the goroutines add to it: the first resolution of a store PD does
\* not know, and reResolve setting the state whatever it was.
ResolveTransitions ==
    DescribedTransitions \cup
    {<<"unresolved", "tombstone">>, <<"resolved", "deleted">>, <<"resolved", "tombstone">>,
     <<"deleted", "tombstone">>, <<"tombstone", "deleted">>}

\* C18 as amended: the resolve state changes only along the described
\* transitions and Unresolved -> Tombstone, Resolved -> Deleted | Tombstone,
\* Deleted -> Tombstone and Tombstone -> Deleted; a Store object never
\* becomes Unresolved again, never leaves Deleted or Tombstone for Resolved
\* or NeedCheck, and becomes NeedCheck only from Resolved.
C18_ResolveTransitions == [][Transitions \subseteq ResolveTransitions]_vars

\* The ticker round re-resolved a store that was Resolved after PD changed
\* its address: the object is Deleted and the registry holds its successor.
C18_Witness ==
    /\ stores[1].state = "deleted"
    /\ stores[1].addr = 1
    /\ ~stores[1].unreachable
    /\ registry = 2
    /\ stores[2].state = "resolved"
    /\ stores[2].addr = 2
    /\ pdAddr = 2
    /\ loopJob.pc = "idle"

(***************************************************************************)
(* PART 11 -- min_commit_ts and rollback records.                          *)
(***************************************************************************)
\* k carries the primary lock of the transaction with start ts.
PrimaryLock(d, k, startTS) ==
    HasLock(d, k) /\ LockOf(d, k).startTS = startTS /\ LockOf(d, k).primary = k

\* The records of key that commit the transaction with start ts.
CommitRecords(d, k, startTS) ==
    {v \in VersionsOf(d, k) : /\ d[mvccEncode(k, v)].startTS = startTS
                              /\ d[mvccEncode(k, v)].valueType # "Rollback"}

\* CheckTxnStatus answering MinCommitTSPushed to a reader leaves the primary
\* lock with min_commit_ts above the reader.
C19_PushStep ==
    \A k \in Keys :
        HasLock(db, k) =>
            \A caller \in Callers(LockOf(db, k).startTS) \ {lockVer} :
                LET lock == LockOf(db, k)
                    r == CheckTxnStatus(db, lock.primary, lock.startTS, caller, lowResolutionTS,
                                        TRUE, lock.op = "PessimisticLock")
                IN (CheckLock(k, caller) /\ r.action = "MinCommitTSPushed") =>
                      /\ PrimaryLock(db', lock.primary, lock.startTS)
                      /\ LockOf(db', lock.primary).minCommitTS >= caller + 1

\* The min_commit_ts of a primary lock does not decrease, and the records
\* that commit its transaction are at or above it.
C19_KeepStep ==
    \A k \in Keys :
        HasLock(db, k) /\ LockOf(db, k).primary = k =>
            LET lock == LockOf(db, k)
            IN /\ PrimaryLock(db', k, lock.startTS) =>
                      LockOf(db', k).minCommitTS >= lock.minCommitTS
               /\ \A v \in CommitRecords(db', k, lock.startTS) \ CommitRecords(db, k, lock.startTS) :
                      v >= lock.minCommitTS

\* A Commit of the primary below the min_commit_ts of its lock is answered
\* CommitTsExpired and changes nothing in the store.
C19_CommitStep ==
    \A t \in Txns :
        (CommitPrimary(t) /\ PrimaryLock(db, primary(t), txn[t].startTS)
            /\ LockOf(db, primary(t)).minCommitTS > txn[t].commitTS) =>
                /\ db' = db
                /\ txn'[t].state = "open"
                /\ Commit(db, <<primary(t)>>, txn[t].startTS, txn[t].commitTS).err.kind = "CommitTsExpired"

\* C19: when CheckTxnStatus answers MinCommitTSPushed for a caller_ts other
\* than MaxUint64 the primary lock has min_commit_ts >= caller_ts + 1; the
\* min_commit_ts of a primary lock never decreases; a Commit of the primary
\* below it is rejected with CommitTsExpired and leaves the lock, and every
\* record that commits the transaction is at or above it.
C19_MinCommitTSPushed == [][C19_PushStep /\ C19_KeepStep /\ C19_CommitStep]_vars

\* A reader pushed the min_commit_ts of a primary lock above the commit_ts
\* its transaction had taken, and the Commit was rejected: the lock is there
\* and nothing is committed.
C19_Witness ==
    \E t \in Txns :
        /\ txn[t].state = "open"
        /\ txn[t].commitTS > 0
        /\ PrimaryLock(db, primary(t), txn[t].startTS)
        /\ LockOf(db, primary(t)).minCommitTS > txn[t].commitTS
        /\ CommitRecords(db, primary(t), txn[t].startTS) = {}

\* key has the Rollback record of the transaction with start ts.
RolledBackAt(d, k, startTS) ==
    /\ mvccEncode(k, startTS) \in DOMAIN d
    /\ d[mvccEncode(k, startTS)].valueType = "Rollback"
    /\ d[mvccEncode(k, startTS)].startTS = startTS

C20_Step ==
    \A t \in Txns, k \in Keys :
        (txn[t].startTS > 0 /\ RolledBackAt(db, k, txn[t].startTS)) =>
            /\ ~(HasLock(db, k) /\ LockOf(db, k).startTS = txn[t].startTS)
            /\ ~(HasLock(db', k) /\ LockOf(db', k).startTS = txn[t].startTS)
            /\ CommitRecords(db', k, txn[t].startTS) = {}
            /\ RolledBackAt(db', k, txn[t].startTS)

\* C20: once key K has the Rollback record of start_ts S, no step installs
\* a lock of S on K or writes a record committing S on K: a Prewrite, a
\* PessimisticLock and a Commit of S that arrive later change nothing on K,
\* and the Rollback record stays (no GC runs here).
C20_RollbackBlocks == [][C20_Step]_vars

\* The pessimistic transaction gave up before it had its lock, its key was
\* rolled back, and a lock request and a Commit of it arrived afterwards:
\* the key has the Rollback record, no lock and nothing committed.
C20_Witness ==
    /\ txn[2].state = "aborted"
    /\ ~txn[2].locked
    /\ txn[2].forUpdateTS > txn[2].startTS
    /\ txn[2].commitTS > txn[2].startTS
    /\ RolledBackAt(db, 2, txn[2].startTS)
    /\ ~HasLock(db, 2)
    /\ CommitRecords(db, 2, txn[2].startTS) = {}

(***************************************************************************)
(* PART 12 -- the answers of the store to late and repeated requests.      *)
(***************************************************************************)
\* The Rollback records of the transaction with start ts on key.
RollbackRecords(d, k, startTS) ==
    {v \in VersionsOf(d, k) : /\ d[mvccEncode(k, v)].startTS = startTS
                              /\ d[mvccEncode(k, v)].valueType = "Rollback"}

\* The lock of k is missing or belongs to another transaction.
NotLockedBy(d, k, startTS) == ~HasLock(d, k) \/ LockOf(d, k).startTS # startTS

\* The lock of k is the same in d and e.
SameLock(d, e, k) ==
    /\ HasLock(d, k) <=> HasLock(e, k)
    /\ HasLock(d, k) => LockOf(d, k) = LockOf(e, k)

\* The newest write record of the transaction with start ts on key is a
\* commit record.
NewestIsCommit(d, k, startTS) ==
    /\ CommitRecords(d, k, startTS) # {}
    /\ \A v \in RollbackRecords(d, k, startTS) : \E c \in CommitRecords(d, k, startTS) : c > v

\* C21 as stated: Commit(K, S, C) on a key whose lock is missing or is
\* another transaction's succeeds and changes nothing when K has a
\* non-Rollback write record of S, returns TxnNotFound when K has a Rollback
\* record of S, and leaves the lock of K alone.
C21_CommitWithoutLock ==
    \A s \in ReqStartTS : \A k \in Keys, c \in ReqCommitTS(s) :
        NotLockedBy(db, k, s) =>
            /\ CommitRecords(db, k, s) # {} =>
                  Commit(db, <<k>>, s, c) = [err |-> NoErr, db |-> db]
            /\ RollbackRecords(db, k, s) # {} =>
                  Commit(db, <<k>>, s, c).err.kind = "TxnNotFound"
            /\ SameLock(db, Commit(db, <<k>>, s, c).db, k)

\* C21, amended: the newest write record of S on K decides.  When it is a
\* commit record the call succeeds, else (a Rollback record, or no record of
\* S) it returns TxnNotFound; the store is unchanged in both cases.
C21_NewestRecordDecides ==
    \A s \in ReqStartTS : \A k \in Keys, c \in ReqCommitTS(s) :
        NotLockedBy(db, k, s) =>
            /\ Commit(db, <<k>>, s, c).db = db
            /\ Commit(db, <<k>>, s, c).err.kind =
                  IF NewestIsCommit(db, k, s) THEN "nil" ELSE "TxnNotFound"

\* Key 1 has a commit record and a Rollback record of transaction 1 and
\* the lock of transaction 3: a Commit of transaction 1 succeeds.
C21_Witness ==
    /\ HasLock(db, 1)
    /\ LockOf(db, 1).startTS = 3
    /\ CommitRecords(db, 1, 1) # {}
    /\ RollbackRecords(db, 1, 1) # {}
    /\ Commit(db, <<1>>, 1, 6) = [err |-> NoErr, db |-> db]

\* The keys of a request.
KeysOf(keys) == {keys[i] : i \in 1..Len(keys)}

\* What Rollback(keys, S) owes key k in the store e it leaves: the lock of S
\* deleted and the Rollback record written, or the Rollback record written
\* and the lock left as it is.
RolledBackKey(d, e, k, startTS) ==
    IF NotLockedBy(d, k, startTS)
    THEN RolledBackAt(e, k, startTS) /\ SameLock(d, e, k)
    ELSE RolledBackAt(e, k, startTS) /\ ~HasLock(e, k)

\* C22 as stated: Rollback(keys, S) deletes the lock of S and writes the
\* Rollback record at S on every key that has the lock, and on every other
\* key writes the Rollback record whatever records the key has, leaving the
\* lock of another transaction in place.
C22_RollbackUnconditional ==
    \A s \in ReqStartTS : \A keys \in ReqKeySeqs(s) : \A k \in KeysOf(keys) :
        RolledBackKey(db, Rollback(db, keys, s).db, k, s)

\* C22, amended: a key without the lock of S whose newest record of S is a
\* commit record makes the request fail with AlreadyCommitted and nothing
\* is written for any key of it; otherwise every key is rolled back as
\* stated, and the records of other versions stay.
C22_RollbackUnlessCommitted ==
    \A s \in ReqStartTS : \A keys \in ReqKeySeqs(s) :
        IF \E k \in KeysOf(keys) : NotLockedBy(db, k, s) /\ NewestIsCommit(db, k, s)
        THEN /\ Rollback(db, keys, s).err.kind = "AlreadyCommitted"
             /\ Rollback(db, keys, s).db = db
        ELSE /\ Rollback(db, keys, s).err = NoErr
             /\ \A k \in KeysOf(keys) : RolledBackKey(db, Rollback(db, keys, s).db, k, s)
             /\ \A ek \in DOMAIN db :
                    (ek[2] \notin {lockVer, s} \/ ek[1] \notin KeysOf(keys)) =>
                        /\ ek \in DOMAIN Rollback(db, keys, s).db
                        /\ Rollback(db, keys, s).db[ek] = db[ek]

\* Transaction 1 is committed on key 1, which transaction 3 has locked since,
\* and still has its lock on key 2: Rollback of both keys is refused and the
\* lock of key 2 stays.
C22_Witness ==
    /\ CommitRecords(db, 1, 1) # {}
    /\ HasLock(db, 1) /\ LockOf(db, 1).startTS = 3
    /\ HasLock(db, 2) /\ LockOf(db, 2).startTS = 1
    /\ Rollback(db, <<1, 2>>, 1).err.kind = "AlreadyCommitted"
    /\ Rollback(db, <<1, 2>>, 1).db = db

\* The lock a promotion leaves on k in e: that of the request, its ttl and
\* (on the primary) min_commit_ts not below those of the lock it replaces.
OneOfPrewrite(e, d, k, req) ==
    /\ HasLock(e, k)
    /\ LockOf(e, k).startTS = req.startTS
    /\ LockOf(e, k).op = "Put"
    /\ LockOf(e, k).ttl = MaxOf({LockOf(d, k).ttl, req.ttl})
    /\ LockOf(e, k).minCommitTS =
          IF req.primary = k THEN MaxOf({LockOf(d, k).minCommitTS, req.minCommitTS}) ELSE 0

\* The for_update_ts a Prewrite request stands for: its start_ts when it
\* carries none.
EffectiveForUpdateTS(req) == IF req.forUpdateTS = 0 THEN req.startTS ELSE req.forUpdateTS

\* key has a write record with a commit_ts above ts.
WrittenAbove(d, k, ts) == \E v \in VersionsOf(d, k) : d[mvccEncode(k, v)].commitTS > ts

\* The lock of k is the pessimistic lock of the transaction.
OwnPessimisticLock(d, k, startTS) ==
    HasLock(d, k) /\ LockOf(d, k).startTS = startTS /\ LockOf(d, k).op = "PessimisticLock"

\* The Prewrite requests of a transaction for key k.
PrewriteRequests(k, startTS) ==
    {PrewriteRequest(k, startTS, pess, IF pess THEN 5 ELSE 0, ttl, m) :
        pess \in BOOLEAN, ttl \in ReqTTL, m \in {0, startTS + 1}}

\* C23: a Prewrite whose mutation gets to the conflict check (the key is
\* unlocked, or holds the transaction's own pessimistic lock) returns
\* WriteConflict exactly when the key has a write record with a commit_ts
\* above the request's for_update_ts F (its start_ts when it has none); the
\* promotion of the own pessimistic lock succeeds, with ttl and
\* min_commit_ts the maxima of lock and request, when no record is above F.
C23_ConflictAboveForUpdateTS ==
    \A s \in ReqStartTS : \A k \in ReqKeysOf(s) : \A req \in PrewriteRequests(k, s) :
        /\ (OwnPessimisticLock(db, k, s) \/ (~HasLock(db, k) /\ ~req.isPessimisticLock[1])) =>
              (Prewrite(db, req).errs[1].kind = "WriteConflict"
                  <=> WrittenAbove(db, k, EffectiveForUpdateTS(req)))
        /\ (OwnPessimisticLock(db, k, s) /\ ~WrittenAbove(db, k, EffectiveForUpdateTS(req))) =>
              /\ Prewrite(db, req).errs = <<NoErr>>
              /\ OneOfPrewrite(Prewrite(db, req).db, db, k, req)

\* The lock of k is the lock of the transaction and has not expired at
\* current_ts.
LiveLock(d, k, lockTS, currentTS) ==
    /\ HasLock(d, k)
    /\ LockOf(d, k).startTS = lockTS
    /\ ExtractPhysical(lockTS) + LockOf(d, k).ttl >= ExtractPhysical(currentTS)

\* d with the min_commit_ts of the lock of k set to ts.
WithMinCommitTS(d, k, ts) ==
    [ek \in DOMAIN d |-> IF ek = mvccEncode(k, lockVer) THEN [d[ek] EXCEPT !.minCommitTS = ts]
                         ELSE d[ek]]

\* The flags of a CheckTxnStatus request.
ReqFlags == BOOLEAN \X BOOLEAN

\* C24 as stated: CheckTxnStatus on a live primary lock with min_commit_ts >
\* 0 and caller_ts other than MaxUint64 leaves the lock with min_commit_ts =
\* max(caller_ts + 1, current_ts), action MinCommitTSPushed; with caller_ts
\* MaxUint64 the action is MinCommitTSPushed and the lock is not written.
C24_AlwaysPushed ==
    \A s \in ReqStartTS, k \in Keys, cur \in ReqCurrentTS, fl \in ReqFlags :
        (PrimaryLock(db, k, s) /\ LiveLock(db, k, s, cur)) =>
            /\ \A caller \in ReqCallerTS \ {lockVer} :
                  LockOf(db, k).minCommitTS > 0 =>
                      /\ CheckTxnStatus(db, k, s, caller, cur, fl[1], fl[2]).action = "MinCommitTSPushed"
                      /\ CheckTxnStatus(db, k, s, caller, cur, fl[1], fl[2]).db =
                            WithMinCommitTS(db, k, MaxOf({caller + 1, cur}))
            /\ CheckTxnStatus(db, k, s, lockVer, cur, fl[1], fl[2]).action = "MinCommitTSPushed"
            /\ CheckTxnStatus(db, k, s, lockVer, cur, fl[1], fl[2]).db = db

\* C24, amended: the lock is rewritten, with min_commit_ts = max(caller_ts +
\* 1, current_ts), only when its min_commit_ts is below caller_ts + 1; a
\* lock already at or above caller_ts + 1 is left as it is.  The action is
\* MinCommitTSPushed in both cases, the ttl returned is that of the lock.
C24_PushedWhenBelow ==
    \A s \in ReqStartTS, k \in Keys, cur \in ReqCurrentTS, fl \in ReqFlags :
        (PrimaryLock(db, k, s) /\ LiveLock(db, k, s, cur)) =>
            /\ \A caller \in ReqCallerTS \ {lockVer} :
                  LockOf(db, k).minCommitTS > 0 =>
                      /\ CheckTxnStatus(db, k, s, caller, cur, fl[1], fl[2]).action = "MinCommitTSPushed"
                      /\ CheckTxnStatus(db, k, s, caller, cur, fl[1], fl[2]).ttl = LockOf(db, k).ttl
                      /\ CheckTxnStatus(db, k, s, caller, cur, fl[1], fl[2]).db =
                            IF LockOf(db, k).minCommitTS < caller + 1
                            THEN WithMinCommitTS(db, k, MaxOf({caller + 1, cur}))
                            ELSE db
            /\ CheckTxnStatus(db, k, s, lockVer, cur, fl[1], fl[2]).action = "MinCommitTSPushed"
            /\ CheckTxnStatus(db, k, s, lockVer, cur, fl[1], fl[2]).db = db

\* The primary lock of transaction 1 was pushed to 5 by a reader at 4 (no
\* request asks for 5): the same reader asking again writes nothing, a
\* later current_ts does not move it either.
C24_Witness ==
    /\ PrimaryLock(db, 1, 1)
    /\ LockOf(db, 1).minCommitTS = 5
    /\ CheckTxnStatus(db, 1, 1, 4, 6, TRUE, FALSE).action = "MinCommitTSPushed"
    /\ CheckTxnStatus(db, 1, 1, 4, 6, TRUE, FALSE).db = db

\* The primary has neither the lock nor any write record of the transaction.
NoTraceOf(d, k, lockTS) ==
    /\ NotLockedBy(d, k, lockTS)
    /\ CommitRecords(d, k, lockTS) = {}
    /\ RollbackRecords(d, k, lockTS) = {}

\* The answer of CheckTxnStatus that writes the Rollback record of lock_ts on
\* k and leaves everything else.
LockNotExistRollback(d, k, lockTS) ==
    [ttl |-> 0, commitTS |-> 0, action |-> "LockNotExistRollback", err |-> NoErr,
     db |-> Write(d, writeRollback(k, lockTS))]

\* C25 as stated: CheckTxnStatus on a primary with neither lock nor write
\* record of lock_ts writes the Rollback record at lock_ts and answers
\* LockNotExistRollback when rollback_if_not_exist is set, whatever
\* resolving_pessimistic is, leaving a lock of another transaction; else it
\* returns TxnNotFound and changes nothing.
C25_RollbackIfNotExist ==
    \A s \in ReqStartTS, k \in Keys, caller \in ReqCallerTS, cur \in ReqCurrentTS, rp \in BOOLEAN :
        NoTraceOf(db, k, s) =>
            /\ CheckTxnStatus(db, k, s, caller, cur, TRUE, rp) = LockNotExistRollback(db, k, s)
            /\ SameLock(db, CheckTxnStatus(db, k, s, caller, cur, TRUE, rp).db, k)
            /\ CheckTxnStatus(db, k, s, caller, cur, FALSE, rp).err.kind = "TxnNotFound"
            /\ CheckTxnStatus(db, k, s, caller, cur, FALSE, rp).db = db

\* C25, amended: with rollback_if_not_exist set the Rollback record is
\* written only when resolving_pessimistic is not set; when it is set the
\* answer is LockNotExistDoNothing, without error, and nothing is written.
C25_RollbackUnlessPessimistic ==
    \A s \in ReqStartTS, k \in Keys, caller \in ReqCallerTS, cur \in ReqCurrentTS, rp \in BOOLEAN :
        NoTraceOf(db, k, s) =>
            /\ CheckTxnStatus(db, k, s, caller, cur, TRUE, FALSE) = LockNotExistRollback(db, k, s)
            /\ SameLock(db, CheckTxnStatus(db, k, s, caller, cur, TRUE, FALSE).db, k)
            /\ CheckTxnStatus(db, k, s, caller, cur, TRUE, TRUE) =
                  [ttl |-> 0, commitTS |-> 0, action |-> "LockNotExistDoNothing", err |-> NoErr,
                   db |-> db]
            /\ CheckTxnStatus(db, k, s, caller, cur, FALSE, rp).err.kind = "TxnNotFound"
            /\ CheckTxnStatus(db, k, s, caller, cur, FALSE, rp).db = db

\* Key 1 holds the lock of transaction 3 and nothing of transaction 1: a
\* resolver of pessimistic locks asking for transaction 1 writes nothing,
\* another one writes the Rollback record under the lock.
C25_Witness ==
    /\ HasLock(db, 1) /\ LockOf(db, 1).startTS = 3
    /\ NoTraceOf(db, 1, 1)
    /\ CheckTxnStatus(db, 1, 1, 4, 6, TRUE, TRUE).action = "LockNotExistDoNothing"
    /\ RolledBackAt(CheckTxnStatus(db, 1, 1, 4, 6, TRUE, FALSE).db, 1, 1)
    /\ HasLock(CheckTxnStatus(db, 1, 1, 4, 6, TRUE, FALSE).db, 1)

\* d with the ttl of the lock of k set to ttl.
WithTTL(d, k, ttl) ==
    [ek \in DOMAIN d |-> IF ek = mvccEncode(k, lockVer) THEN [d[ek] EXCEPT !.ttl = ttl] ELSE d[ek]]

\* No step lowers the ttl of a lock that is there before and after it.
C26_Step ==
    \A k \in Keys :
        (HasLock(db, k) /\ HasLock(db', k) /\ LockOf(db', k).startTS = LockOf(db, k).startTS) =>
            LockOf(db', k).ttl >= LockOf(db, k).ttl

\* TxnHeartBeat on the primary lock stores and returns the larger of the
\* lock's ttl and the advised one; on a missing lock, on a lock of another
\* transaction (and on a lock of a key that is not its primary) it returns
\* an error and changes nothing.
C26_HeartBeat ==
    \A s \in ReqStartTS, k \in Keys, a \in ReqAdviseTTL :
        IF PrimaryLock(db, k, s)
        THEN TxnHeartBeat(db, k, s, a) =
                [ttl |-> MaxOf({LockOf(db, k).ttl, a}), err |-> NoErr,
                 db |-> WithTTL(db, k, MaxOf({LockOf(db, k).ttl, a}))]
        ELSE /\ IsErr(TxnHeartBeat(db, k, s, a).err)
             /\ TxnHeartBeat(db, k, s, a).db = db

\* A Prewrite that replaces the transaction's own pessimistic lock leaves
\* the larger of the lock's ttl and the request's.
C26_Promotion ==
    \A s \in ReqStartTS : \A k \in ReqKeysOf(s) : \A req \in PrewriteRequests(k, s) :
        (OwnPessimisticLock(db, k, s) /\ Prewrite(db, req).errs = <<NoErr>>) =>
            /\ LockOf(Prewrite(db, req).db, k).op = "Put"
            /\ LockOf(Prewrite(db, req).db, k).ttl = MaxOf({LockOf(db, k).ttl, req.ttl})

Visible(d, k, ts) == getValueWalk(ValuesOf(d, k), 1, ts)

\* The timestamps readers read at.
ReadTS == 0 .. 9

\* C27: Commit or ResolveLock with commit_ts > 0 on a key whose lock is
\* still the pessimistic lock of the transaction does not change what
\* readers see for that key.
C27_PessimisticCommitKeepsData ==
    \A s \in ReqStartTS : \A k \in ReqKeysOf(s), c \in ReqCommitTS(s), ts \in ReadTS :
        OwnPessimisticLock(db, k, s) =>
            /\ Visible(Commit(db, <<k>>, s, c).db, k, ts) = Visible(db, k, ts)
            /\ Visible(ResolveLock(db, 0, 0, s, c), k, ts) = Visible(db, k, ts)

\* The answer r of CheckTxnStatus for lock_ts on k agrees with the lock of
\* lock_ts left on k: "rolled back" (ttl 0, commit_ts 0, no error) only
\* without the lock, and ttl > 0 with it.
StatusMatchesLock(r, k, lockTS) ==
    /\ (r.err = NoErr /\ r.ttl = 0 /\ r.commitTS = 0) => NotLockedBy(r.db, k, lockTS)
    /\ ~NotLockedBy(r.db, k, lockTS) => r.ttl > 0

RaceSettled == lookup.mode = "sendFail" /\ lookup.done >= 1

\* The work index one position after the one the first call found.
NextTiKVIdx(lk) == (lk.workTiKVIdx + 1) % accessStoreNum(heap[lk.region].store, "tiKVOnly")

C30_InvalidatedForGood ==
    \A o \in DOMAIN heap :
        heap[o].invalidReason # "Ok" => heap[o].lastAccess = invalidatedLastAccessTime

\* The key ranges of two regions overlap.
RangesOverlap(a, b) ==
    /\ a.endKey = EmptyKey \/ b.startKey < a.endKey
    /\ b.endKey = EmptyKey \/ a.startKey < b.endKey

\* A Region is valid at ts: checkRegionCacheTTL would accept it.
ValidAt(r, ts) == ts - r.lastAccess <= regionCacheTTLSec

\* C31: the valid regions reachable through the ordered start-key map have
\* pairwise disjoint ranges, so LocateKey never returns a cached region
\* whose range overlaps the one of a region inserted after it.
C31_DisjointRanges ==
    \A j \in DOMAIN sorted, k \in DOMAIN sorted :
        (j # k /\ ValidAt(heap[sorted[j]], unixNow) /\ ValidAt(heap[sorted[k]], unixNow)) =>
            ~RangesOverlap(heap[sorted[j]].meta, heap[sorted[k]].meta)

\* The lists of current regions a store may answer with: one region of any
\* range, version and conf_ver, or the two halves of the key space as two
\* regions.
AnswerVers == 1..MaxVer

AnsweredRegions ==
    {<<Meta(id, v, cv, rg[1], rg[2])>> :
        id \in 1..MaxRegionID, v \in AnswerVers, cv \in {0, 1},
        rg \in {<<EmptyKey, EmptyKey>>, <<EmptyKey, 1>>, <<1, EmptyKey>>}}
    \cup {<<Meta(x[1], x[2], 1, EmptyKey, 1), Meta(x[3], x[4], 1, 1, EmptyKey)>> :
             x \in {y \in (1..MaxRegionID) \X AnswerVers \X (1..MaxRegionID) \X AnswerVers :
                       y[1] # y[3]}}

\* The answers that give a version the cache holds the range the cache has
\* for it: a version of a region stands for one range.
AnswersFor(c) ==
    {metas \in AnsweredRegions :
        \A i \in 1..Len(metas) :
            VerID(metas[i]) \in DOMAIN c.regions => metas[i] = c.heap[c.regions[VerID(metas[i])]].meta}

\* The meta is behind the region of the request in version or conf_ver.
Behind(meta, id) == meta.confVer < id.confVer \/ meta.ver < id.ver

AnyBehind(metas, id) == \E i \in 1..Len(metas) : Behind(metas[i], id)

SameIDBehind(metas, id) == \E i \in 1..Len(metas) : metas[i].id = id.id /\ Behind(metas[i], id)

\* Every region of the list is in the cache under its version.
Installed(c, metas) == \A i \in 1..Len(metas) : VerID(metas[i]) \in DOMAIN c.regions

\* The answer f of OnRegionEpochNotMatch on cache c when behind says that
\* the client is ahead: back-off and the cache unchanged then, and the
\* successors installed without a back-off otherwise.
BacksOffOrInstalls(f, c, metas, behind) ==
    IF behind THEN f.backoff /\ f.c = c
    ELSE ~f.backoff /\ Installed(f.c, metas)

\* C32 as stated: OnRegionEpochNotMatch with a non-empty list backs off and
\* leaves the cache unchanged if any returned meta is behind the request's
\* region in version or conf_ver, and installs the successors otherwise.
C32_AnyMetaBehind ==
    \A ctx \in TiKVContexts, metas \in AnswersFor(Cache) :
        BacksOffOrInstalls(OnRegionEpochNotMatch(Cache, ctx, metas, storeEpoch, unixNow), Cache,
                           metas, AnyBehind(metas, ctx.Region))

\* C32: OnRegionEpochNotMatch with a non-empty list backs off and leaves the
\* cache unchanged if a returned meta with the id of the request's region is
\* behind it in version or conf_ver; otherwise, also when a meta of another
\* region is behind, it installs the successors without a back-off.
C32_SameRegionBehind ==
    \A ctx \in TiKVContexts, metas \in AnswersFor(Cache) :
        BacksOffOrInstalls(OnRegionEpochNotMatch(Cache, ctx, metas, storeEpoch, unixNow), Cache,
                           metas, SameIDBehind(metas, ctx.Region))

\* The left half of a split is cached at version 2; a store that has not
\* applied the split answers with the whole region at version 1 and the
\* call backs off, and an answer with the halves at version 2 and 1, the
\* one behind being another region, is installed.
C32_Witness ==
    \E ctx \in TiKVContexts :
        /\ ctx.Region = [id |-> 1, confVer |-> 1, ver |-> 2]
        /\ ctx.Meta.endKey = 1
        /\ OnRegionEpochNotMatch(Cache, ctx, <<Meta(1, 1, 1, EmptyKey, EmptyKey)>>, storeEpoch,
                                 unixNow) = [c |-> Cache, backoff |-> TRUE]
        /\ ~OnRegionEpochNotMatch(Cache, ctx, <<Meta(1, 2, 1, EmptyKey, 1), Meta(2, 1, 1, 1, EmptyKey)>>,
                                  storeEpoch, unixNow).backoff
        /\ Installed(OnRegionEpochNotMatch(Cache, ctx,
                                           <<Meta(1, 2, 1, EmptyKey, 1), Meta(2, 1, 1, 1, EmptyKey)>>,
                                           storeEpoch, unixNow).c,
                     <<Meta(1, 2, 1, EmptyKey, 1), Meta(2, 1, 1, 1, EmptyKey)>>)

\* The min_commit_ts values of the responses looked at.
ReturnedMinCommitTs == {0, 7, 8}

\* No step lowers the committer's min_commit_ts, and once a mode is chosen
\* no step turns async commit on.
C33_Step ==
    /\ committer'.minCommitTS >= committer.minCommitTS
    /\ (committer.state # "init" /\ ~committer.useAsyncCommit) => ~committer'.useAsyncCommit

\* The committer f.c after a successful response with min_commit_ts m to
\* the async-commit committer c: async commit is off and min_commit_ts as
\* it was when m is 0, else min_commit_ts is the larger of the two.
AsyncResponseTaken(f, c, m) ==
    /\ ~f.err
    /\ IF m = 0 THEN ~f.c.useAsyncCommit /\ f.c.minCommitTS = c.minCommitTS
       ELSE f.c.useAsyncCommit /\ f.c.minCommitTS = MaxOf({c.minCommitTS, m})

C33_Response ==
    \A m \in ReturnedMinCommitTs :
        (committer.useAsyncCommit /\ ~committer.useOnePC) =>
            AsyncResponseTaken(onPrewriteSuccess(committer, PrewriteResponse(0, m)), committer, m)

Deciding(e, startTS, pessimistic) ==
    \/ e.kind = "AlreadyExist"
    \/ e.kind = "Locked" /\ e.ts > startTS /\ ~pessimistic

LargerLocks(keyErrs, startTS) ==
    {i \in 1..Len(keyErrs) : keyErrs[i].kind = "Locked" /\ keyErrs[i].ts > startTS}

\* What is the same in the claim and in the code: no success, and with no
\* deciding key error every lock goes to the resolver, BoTxnLock is backed
\* off when msBeforeExpired > 0, and the batch is sent again unless the
\* resolver or the backoff fails.
ResolvesAndRetries(keyErrs, startTS, pessimistic, ans, o) ==
    (\A i \in 1..Len(keyErrs) : ~Deciding(keyErrs[i], startTS, pessimistic)) =>
        /\ o.resolved /\ o.locks = keyErrs
        /\ ~ans.resolveErr => (o.backoff = "BoTxnLock" <=> ans.msBeforeExpired > 0)
        /\ o.ret = "none" <=> ~ans.resolveErr /\ ~(ans.msBeforeExpired > 0 /\ ans.backoffErr)

\* The claim's two rules for the error: AlreadyExist is surfaced whenever it
\* is in the response, and a lock of a later transaction makes the
\* optimistic batch return WriteConflict with that lock.
SurfacesEach(keyErrs, startTS, pessimistic, o) ==
    /\ (\E i \in 1..Len(keyErrs) : keyErrs[i].kind = "AlreadyExist") => o.ret = "KeyExist"
    /\ ~pessimistic /\ LargerLocks(keyErrs, startTS) # {} =>
          /\ o.ret = "WriteConflict" /\ ~o.resolved
          /\ \E i \in LargerLocks(keyErrs, startTS) : o.by = keyErrs[i]

\* The first deciding key error in the order of the response makes the error.
SurfacesFirst(keyErrs, startTS, pessimistic, o) ==
    \A i \in 1..Len(keyErrs) :
        /\ Deciding(keyErrs[i], startTS, pessimistic)
        /\ \A j \in 1..(i - 1) : ~Deciding(keyErrs[j], startTS, pessimistic)
        => /\ o.ret = IF keyErrs[i].kind = "AlreadyExist" THEN "KeyExist" ELSE "WriteConflict"
           /\ o.by = keyErrs[i]
           /\ ~o.resolved

\* A handler that ends on key errors ends with an error, and one that does
\* not end sends again.
C34_Step ==
    \A b \in Handlers :
        handlers[b].pc = "send" /\ handlers'[b].cause = "key" =>
            handlers'[b].pc = "returning" /\ handlers'[b].err

\* C34 as stated: on key errors AlreadyExist is surfaced, a lock with
\* lock.ts > start_ts makes an optimistic batch return WriteConflict(start_ts,
\* lock.ts, key) without the resolver, otherwise the locks are resolved,
\* BoTxnLock is backed off when ms_before_expired > 0 and the batch is sent
\* again; success is never reported.
C34_EachErrorSurfaced ==
    \A b \in Handlers : handlers[b].pc = "send" =>
        \A startTS \in CommitterStartTS, pessimistic \in BOOLEAN, keyErrs \in KeyErrorLists,
           ans \in ResolveAnswers :
            /\ SurfacesEach(keyErrs, startTS, pessimistic,
                            onKeyErrors(startTS, pessimistic, keyErrs, ans))
            /\ ResolvesAndRetries(keyErrs, startTS, pessimistic, ans,
                                  onKeyErrors(startTS, pessimistic, keyErrs, ans))

C34_Response ==
    \A b \in Handlers : handlers[b].pc = "send" =>
        \A startTS \in CommitterStartTS, pessimistic \in BOOLEAN, keyErrs \in KeyErrorLists,
           ans \in ResolveAnswers :
            /\ SurfacesFirst(keyErrs, startTS, pessimistic,
                             onKeyErrors(startTS, pessimistic, keyErrs, ans))
            /\ ResolvesAndRetries(keyErrs, startTS, pessimistic, ans,
                                  onKeyErrors(startTS, pessimistic, keyErrs, ans))

\* C34, amended: the first key error in the order of the response that is
\* AlreadyExist or, for an optimistic transaction, a lock with lock.ts >
\* start_ts decides the error returned (KeyExist, or WriteConflict with that
\* lock) and the resolver is not called; with no such key error every lock is
\* passed to the resolver, BoTxnLock is backed off when ms_before_expired > 0,
\* and the batch is sent again unless the resolver or the backoff fails; a
\* handler that ends on key errors ends with an error.
C34_FirstErrorSurfaced == [][C34_Step]_vars /\ []C34_Response

\* A handler has ended with an error on key errors, and another is waiting
\* for a response that may carry AlreadyExist after a lock of a later
\* transaction.
C34_Witness ==
    /\ \E b \in Handlers : handlers[b].cause = "key" /\ handlers[b].pc = "returning"
    /\ \E b \in Handlers : handlers[b].pc = "send"
    /\ \E keyErrs \in KeyErrorLists :
          /\ Len(keyErrs) = 2 /\ keyErrs[2].kind = "AlreadyExist"
          /\ onKeyErrors(5, FALSE, keyErrs, CHOOSE a \in ResolveAnswers : TRUE).ret = "WriteConflict"

(***************************************************************************)
(* The MinCommitTs of a prewrite request.                                  *)
(***************************************************************************)
RequestStartTS == 1..9

RequestForUpdateTS == 0..9

Larger(a, b) == IF a >= b THEN a ELSE b

\* max(c.min_commit_ts, max(start_ts, for_update_ts) + 1), above both.
IsMaxOfAll(m, minCommitTS, startTS, forUpdateTS) ==
    /\ m = Larger(minCommitTS, Larger(startTS, forUpdateTS) + 1)
    /\ m > startTS /\ m > forUpdateTS

\* C35 as stated: for all start_ts, for_update_ts and min_commit_ts of the
\* committer the MinCommitTs of a prewrite request is max(c.min_commit_ts,
\* max(start_ts, for_update_ts) + 1), greater than start_ts and
\* for_update_ts.
C35_MinCommitTSIsMax ==
    \A b \in Handlers : handlers[b].pc = "send" =>
        \A startTS \in RequestStartTS, forUpdateTS \in RequestForUpdateTS :
            IsMaxOfAll(prewriteMinCommitTS(committer.minCommitTS, startTS, forUpdateTS),
                       committer.minCommitTS, startTS, forUpdateTS)

\* C35, amended: when for_update_ts is 0 or not below start_ts, the
\* MinCommitTs of a prewrite request is max(c.min_commit_ts, max(start_ts,
\* for_update_ts) + 1), greater than start_ts and for_update_ts.
C35_MinCommitTSIsMaxFromStart ==
    \A b \in Handlers : handlers[b].pc = "send" =>
        \A startTS \in RequestStartTS, forUpdateTS \in RequestForUpdateTS :
            forUpdateTS = 0 \/ forUpdateTS >= startTS =>
                IsMaxOfAll(prewriteMinCommitTS(committer.minCommitTS, startTS, forUpdateTS),
                           committer.minCommitTS, startTS, forUpdateTS)

\* A request is built by a committer whose minCommitTS a response has
\* raised: for some pessimistic transaction the request carries the
\* committer's value, for another for_update_ts + 1.
C35_Witness ==
    /\ committer.minCommitTS > 0
    /\ \E b \in Handlers : handlers[b].pc = "send"
    /\ \E startTS \in RequestStartTS, forUpdateTS \in RequestForUpdateTS :
          /\ forUpdateTS > startTS
          /\ prewriteMinCommitTS(committer.minCommitTS, startTS, forUpdateTS) = committer.minCommitTS
    /\ \E startTS \in RequestStartTS, forUpdateTS \in RequestForUpdateTS :
          /\ forUpdateTS > startTS
          /\ prewriteMinCommitTS(committer.minCommitTS, startTS, forUpdateTS) = forUpdateTS + 1

(***************************************************************************)
(* The health-check loop of a store.                                       *)
(***************************************************************************)
\* The health-check loop of o ends in this step.
LoopEnds(o) == stores'[o].loops < stores[o].loops

\* The loop of o has the answer of PD and finds the store removed or moved.
FoundInvalid(o) ==
    /\ stores[o].loops > 0
    /\ stores[o].health.busy
    /\ ~stores'[o].health.busy
    /\ stores[o].health.store = 0 \/ stores[o].health.store # stores[o].addr

C36_Step ==
    \A o \in StoreObjs :
        /\ LoopEnds(o) => stores'[o].loops = 0 /\ ~stores'[o].unreachable
        /\ FoundInvalid(o) => LoopEnds(o)
        /\ stores'[o].loops > stores[o].loops => ~stores[o].unreachable

\* At most one loop, the flag set while it runs, the loop ending where the
\* store answers or the cache is closed, and a start possible without one.
C36_Loops ==
    \A o \in StoreObjs : stores[o].exists =>
        /\ stores[o].loops <= 1
        /\ stores[o].loops = 1 => stores[o].unreachable
        /\ stores[o].loops = 1 /\ ~stores[o].health.busy
              /\ (stores[o].state = "resolved" \/ loopJob.closed)
           => \/ ENABLED HealthReachable(o)
              \/ ENABLED HealthClosed(o)
        /\ ~stores[o].unreachable =>
              /\ stores[o].loops = 0
              /\ startHealthCheckLoopIfNeeded(stores[o]).loops = 1
              /\ startHealthCheckLoopIfNeeded(stores[o]).unreachable

\* C36: for each Store at most one health-check loop runs at a time under
\* concurrent startHealthCheckLoopIfNeeded calls; the unreachable flag is set
\* while a loop runs; when a probe finds the store reachable, the store is
\* found deleted or removed, or the cache is closed, the loop ends and the
\* flag is cleared, and a new loop can then be started.
C36_OneHealthCheckLoop == [][C36_Step]_vars /\ []C36_Loops

\* The loop of a store ended when PD had moved the store, and the loop of the
\* Store object made for the new address is asking PD after the cache was
\* closed.
C36_Witness ==
    \E o \in StoreObjs, n \in StoreObjs :
        /\ stores[o].state = "deleted" /\ stores[o].loops = 0 /\ ~stores[o].unreachable
        /\ stores[n].exists /\ stores[n].loops = 1 /\ stores[n].unreachable
        /\ stores[n].health.busy
        /\ loopJob.closed

(***************************************************************************)
(* The background loop and the stores that need a check.                   *)
(***************************************************************************)
\* The loop has the answer of PD and no Store object is left for it.
LoopOutOfObjects ==
    loopJob.pc = "got" /\ ~CanReResolve(stores, loopJob.obj, loopJob.answer.store)

Rechecked(o) == stores[o].state # "needCheck" \/ LoopOutOfObjects

\* C37 as stated: markNeedCheck never blocks, and every store that enters
\* NeedCheck leaves it for Resolved, Deleted or Tombstone when the loop keeps
\* running and PD answers, also when its notification was dropped.
C37_EveryStoreRechecked ==
    /\ [](\A o \in StoreObjs : stores[o].exists => ENABLED MarkNeedCheck(o))
    /\ \A o \in StoreObjs : (stores[o].state = "needCheck") ~> Rechecked(o)

(***************************************************************************)
(* The timestamps of the mock PD.                                          *)
(***************************************************************************)
\* (physical, logical) of a is before that of b.
Before(a, b) ==
    \/ a.physicalTS < b.physicalTS
    \/ a.physicalTS = b.physicalTS /\ a.logicalTS < b.logicalTS

\* A call returns a timestamp after the last one returned and after every
\* timestamp a client holds.
C38_Step ==
    tsMu' # tsMu =>
        /\ Before(tsMu, tsMu')
        /\ \A c \in Txns : txn[c].startTS < TSOf(tsMu')

\* Whatever the clock shows, the next call returns a later timestamp; the
\* timestamps held by two clients differ.
C38_Calls ==
    /\ \A ts \in 0..MaxNow : Before(tsMu, GetTS(tsMu, ts))
    /\ \A c \in Txns : txn[c].startTS <= TSOf(tsMu)
    /\ \A c \in Txns, e \in Txns : c # e /\ txn[c].startTS # 0 => txn[c].startTS # txn[e].startTS

\* C38: the timestamps returned by GetTS are strictly increasing in
\* (physical, logical) order across all calls of the process, through
\* whichever PD client, and no two calls return the same timestamp, also
\* when the wall clock stands still or goes backwards.
C38_StrictlyIncreasing == [][C38_Step]_vars /\ []C38_Calls

\* The clock was set back after a call and calls were made after that: the
\* clients hold three timestamps of one millisecond that is ahead of the
\* clock.
C38_Witness ==
    /\ now < tsMu.physicalTS
    /\ tsMu.logicalTS >= 2
    /\ \A c \in Txns : ExtractPhysical(txn[c].startTS) = tsMu.physicalTS

(***************************************************************************)
(* Reads at and above the safe point of a garbage collection.              *)
(***************************************************************************)
\* Every key of keys reads the same in d and e at the read points from
\* safePoint on.
SameReads(d, e, keys, safePoint) ==
    \A k \in keys, ts \in ReadPoints(d, safePoint) :
        ts >= safePoint => Get(e, k, ts) = Get(d, k, ts)

\* GC of the range rg at safePoint succeeds on d and removes records.
Collects(d, rg, safePoint) ==
    /\ ~IsErr(GC(d, rg[1], rg[2], safePoint).err)
    /\ GC(d, rg[1], rg[2], safePoint).db # d

C39_Step ==
    \A rg \in GCRanges, safePoint \in SafePoints :
        GCReq(rg, safePoint) /\ ~IsErr(GC(db, rg[1], rg[2], safePoint).err) =>
            SameReads(db, db', KeysInRange(db, rg[1], rg[2]), safePoint)

C39_EveryStore ==
    \A rg \in GCRanges, safePoint \in SafePoints \ {0} :
        ~IsErr(GC(db, rg[1], rg[2], safePoint).err) =>
            SameReads(db, GC(db, rg[1], rg[2], safePoint).db, KeysInRange(db, rg[1], rg[2]), safePoint)

\* C39: for every key of the collected range and every read timestamp
\* ts >= safe_point, Get(key, ts) returns after a successful GC(safe_point)
\* what it returned before it.
C39_ReadsKeptByGC == [][C39_Step]_vars /\ []C39_EveryStore

\* A key has two committed versions, GC at the commit ts of the newer one
\* removes records of the store, and a read at the safe point finds a value.
C39_Witness ==
    \E rg \in GCRanges, safePoint \in SafePoints \ {0}, k \in Keys :
        /\ Collects(db, rg, safePoint)
        /\ k \in KeysInRange(db, rg[1], rg[2])
        /\ Cardinality(DataVersions(db, k, safePoint)) >= 2
        /\ Get(db, k, safePoint).value # NilValue
        /\ ~IsErr(Get(db, k, safePoint).err)

(***************************************************************************)
(* The backoff budget of the retry loop of a batch.                        *)
(***************************************************************************)
\* The answers of the lock resolver and the Backoffer after n sleeps.
AnswersAfter(n) ==
    {a \in ResolveAnswers : a.backoffErr = (a.msBeforeExpired > 0 /\ BackoffFails(n))}

\* An iteration on a region error that sends again has slept.
RegionRetrySleeps(o) == o.how = "same" => o.slept

\* An iteration on lock errors that sends again has backed off.
LockRetrySleeps(o) == o.ret = "none" => o.backoff = "BoTxnLock"

\* An iteration on a region error that sends again has slept unless the
\* error is a real EpochNotMatch; with no budget left it returns an error
\* where it would sleep.
RegionRetry(o, kind, n) ==
    /\ o.how = "same" => (o.slept <=> kind # "EpochNotMatch")
    /\ o.slept => o.backoff = "BoRegionMiss"
    /\ BackoffFails(n) /\ kind # "EpochNotMatch" => o.how = "fail"

\* An iteration on lock errors that sends again has backed off unless
\* msBeforeExpired is 0; with no budget left it returns an error where it
\* would sleep.
LockRetry(o, ans, n) ==
    /\ o.ret = "none" => (o.backoff = "BoTxnLock" <=> ans.msBeforeExpired > 0)
    /\ BackoffFails(n) /\ ans.msBeforeExpired > 0 => o.ret # "none"

\* C40 as stated: every iteration of the retry loop that does not return,
\* on a region error relocated to the same region, a real EpochNotMatch
\* included, or on lock errors with ms_before_expired = 0, consumes part of
\* the backoff budget.
C40_EveryRetrySleeps ==
    \A b \in Handlers : handlers[b].pc = "send" =>
        /\ \A kind \in RegionErrorKinds, relocate \in Relocations :
              RegionRetrySleeps(onRegionError(kind, BackoffFails(handlers[b].backoffs), relocate))
        /\ \A keyErrs \in KeyErrorLists, ans \in AnswersAfter(handlers[b].backoffs) :
              LockRetrySleeps(onKeyErrors(5, TRUE, keyErrs, ans))

C40_Step ==
    \A b \in Handlers :
        handlers[b].pc = "send" =>
            /\ handlers'[b].backoffs >= handlers[b].backoffs
            /\ handlers'[b].backoffs <= handlers[b].backoffs + 1

C40_Budget ==
    \A b \in Handlers :
        /\ handlers[b].backoffs <= MaxBackoffs
        /\ handlers[b].pc = "send" =>
            /\ \A kind \in RegionErrorKinds, relocate \in Relocations :
                  RegionRetry(onRegionError(kind, BackoffFails(handlers[b].backoffs), relocate),
                              kind, handlers[b].backoffs)
            /\ \A keyErrs \in KeyErrorLists, ans \in AnswersAfter(handlers[b].backoffs) :
                  LockRetry(onKeyErrors(5, TRUE, keyErrs, ans), ans, handlers[b].backoffs)

\* C40, amended: an iteration of the retry loop that does not return
\* consumes part of the backoff budget when it is on a region error other
\* than a real EpochNotMatch or on lock errors with ms_before_expired > 0,
\* and with the budget used up such an iteration returns an error; an
\* iteration on a real EpochNotMatch relocated to the same region or on lock
\* errors with ms_before_expired = 0 sends again without consuming budget.
C40_BackoffRetriesSleep == [][C40_Step]_vars /\ []C40_Budget

\* A handler has used up its budget in iterations that did not return and
\* is sending again.
C40_Witness ==
    \E b \in Handlers :
        /\ handlers[b].pc = "send"
        /\ handlers[b].backoffs = MaxBackoffs
        /\ handlers[b].rpcErr # NoRPCError
        /\ onRegionError("EpochNotMatch", BackoffFails(handlers[b].backoffs), "same").how = "same"
====
